---- MODULE Spec2Model ----
(***************************************************************************)
(* Distributed coordination service (mcp-coordination): leased locks and   *)
(* session teardown over a single linearizable key/value backend (Redis).  *)
(*                                                                         *)
(* Every `await r.<op>(...)` of coordination.py is one atomic backend      *)
(* operation and therefore one step of the model; the Python code that     *)
(* runs between two awaits (including the `return` after the last one)     *)
(* belongs to the step of the await before it.  An RPC starts with its     *)
(* first backend operation and completes with its last.                    *)
(*                                                                         *)
(* Strings with ':' separators are sequences of segments:                  *)
(*   "claude:locks:resource:pytest" is <<"claude","locks","resource",      *)
(*   "pytest">>.  Timestamps are integer seconds of one global clock.      *)
(***************************************************************************)
EXTENDS Integers, Sequences, FiniteSets, TLC

(* ------------------------------ bounds -------------------------------- *)
MaxTime == 2
MaxTTL == 2

(* --------------------------- configuration ---------------------------- *)
Sessions == {"A", "B"}
\* RPC tasks: calls 1 and 3 run in the process of session A (two tasks of one
\* event loop), call 2 in the process of session B.  A run has two of them:
\* one task per session, or both tasks of session A.
Calls == {1, 2, 3}
Deployments == {{1, 2}, {1, 3}}
SessOf(c) == IF c % 2 = 1 THEN "A" ELSE "B"
Worktree(s) == <<"wt", s>>
Tokens == {<<"pytest">>, <<"issue", "42">>}
TTLs == 1..MaxTTL

LOCK_PREFIX == <<"claude", "locks">>
SESSION_PREFIX == <<"claude", "sessions">>
HEARTBEAT_PREFIX == <<"claude", "heartbeat">>

VARIABLES
    tasks,        \* the RPC tasks of this run
    config,       \* the Config instance loaded at startup
    branch,       \* what `git branch --show-current` answers in each worktree
    now,          \* the clock (backend timer and datetime.now alike)
    locks,        \* backend keys under claude:locks:*
    sessions,     \* backend keys claude:sessions:<id>
    heartbeats,   \* backend keys claude:heartbeat:<id>
    pc,           \* position of each RPC
    loc,          \* local variables of each RPC
    last,         \* the result returned by the step just taken
    lease,        \* history: lease granted to each session on each key
    relBy,        \* history: sessions whose release succeeded, no acquire since
    cleanCalls,   \* history: acquires that found the key free, no release/expiry since
    cleanWinners, \* history: sessions whose set-if-absent won the key since it was last free
    presence      \* history: when each session last registered and last heartbeat

vars == <<tasks, config, branch, now, locks, sessions, heartbeats, pc, loc, last,
          lease, relBy, cleanCalls, cleanWinners, presence>>
env == <<tasks, config, branch>>
backend == <<locks, sessions, heartbeats>>
history == <<lease, relBy, cleanCalls, cleanWinners>>

(* --------------------- naming and key construction -------------------- *)
\* (mutant) the name is the key
LockKey_AsGiven(lock_name) == lock_name

\* (mutant) every name is put under the prefix as it is
LockKey_NoResource(lock_name) == LOCK_PREFIX \o lock_name

\* `if ":" in lock_name` : key = LOCK_PREFIX:lock_name, else :resource:lock_name
LockKey(lock_name) ==
    IF Len(lock_name) > 1
        THEN LOCK_PREFIX \o lock_name
        ELSE LOCK_PREFIX \o <<"resource">> \o lock_name

\* key.replace("claude:locks:", ""): every occurrence of the prefix and its
\* ':' is taken out, from left to right, wherever it stands in the key
RECURSIVE KeyToName(_)
KeyToName(key) ==
    IF key = <<>> THEN <<>>
    ELSE IF Len(key) > Len(LOCK_PREFIX)
            /\ SubSeq(key, 1, Len(LOCK_PREFIX)) = LOCK_PREFIX
        THEN KeyToName(SubSeq(key, Len(LOCK_PREFIX) + 1, Len(key)))
    ELSE <<Head(key)>> \o KeyToName(Tail(key))

LockKeys == {LockKey(t) : t \in Tokens}
SessionKey(s) == SESSION_PREFIX \o <<s>>
HeartbeatKey(s) == HEARTBEAT_PREFIX \o <<s>>
SessionKeys == {SessionKey(s) : s \in Sessions}
HeartbeatKeys == {HeartbeatKey(s) : s \in Sessions}

(* ------------------------------ strings ------------------------------- *)
\* Branch names are looked at character by character.  Chars gives the
\* characters of every string the model meets as a branch name or as a part
\* of a lock name; Text is the string made of given characters.
Chars ==
    "" :> <<>> @@
    "issue-" :> <<"i", "s", "s", "u", "e", "-">> @@
    "wave-" :> <<"w", "a", "v", "e", "-">> @@
    "main" :> <<"m", "a", "i", "n">> @@
    "issue-42-bug" :> <<"i", "s", "s", "u", "e", "-", "4", "2", "-", "b", "u", "g">> @@
    "issue-007" :> <<"i", "s", "s", "u", "e", "-", "0", "0", "7">> @@
    "issue-x" :> <<"i", "s", "s", "u", "e", "-", "x">> @@
    "my-issue-42" :> <<"m", "y", "-", "i", "s", "s", "u", "e", "-", "4", "2">> @@
    "wave-5c.1-login" :> <<"w", "a", "v", "e", "-", "5", "c", ".", "1", "-", "l", "o", "g", "i", "n">> @@
    "wave-5c-1-login" :> <<"w", "a", "v", "e", "-", "5", "c", "-", "1", "-", "l", "o", "g", "i", "n">> @@
    "wave-3-cleanup" :> <<"w", "a", "v", "e", "-", "3", "-", "c", "l", "e", "a", "n", "u", "p">> @@
    "wave-5cd-1" :> <<"w", "a", "v", "e", "-", "5", "c", "d", "-", "1">> @@
    "42" :> <<"4", "2">> @@
    "7" :> <<"7">> @@
    "5c.1" :> <<"5", "c", ".", "1">> @@
    "5c" :> <<"5", "c">> @@
    "3" :> <<"3">>

Text(cs) == CHOOSE w \in DOMAIN Chars : Chars[w] = cs

Digit == {"0", "1", "2", "3", "4", "5", "6", "7", "8", "9"}
LowerCase == {"a", "b", "c", "d", "e", "f", "g", "h", "i", "j", "k", "l", "m",
              "n", "o", "p", "q", "r", "s", "t", "u", "v", "w", "x", "y", "z"}
Whitespace == {" ", "\n", "\t"}

\* str.strip()
Strip(cs) ==
    LET solid == {i \in DOMAIN cs : cs[i] \notin Whitespace}
    IN  IF solid = {} THEN <<>>
        ELSE SubSeq(cs, CHOOSE i \in solid : \A j \in solid : i <= j,
                        CHOOSE i \in solid : \A j \in solid : j <= i)

\* re.match of a literal prefix
StartsWith(cs, prefix) ==
    Len(cs) >= Len(prefix) /\ SubSeq(cs, 1, Len(prefix)) = prefix

\* \d+ from position i: the position of the last digit of the run (i - 1: none)
DigitRun(cs, i) ==
    CHOOSE j \in (i - 1)..Len(cs) :
        /\ \A k \in i..j : cs[k] \in Digit
        /\ j = Len(cs) \/ cs[j + 1] \notin Digit

\* \d+[a-z]? from position i: the position of its last character (i - 1: none)
WaveRun(cs, i) ==
    LET j == DigitRun(cs, i)
    IN  IF j >= i /\ j < Len(cs) /\ cs[j + 1] \in LowerCase THEN j + 1 ELSE j

DigitValue ==
    "0" :> 0 @@ "1" :> 1 @@ "2" :> 2 @@ "3" :> 3 @@ "4" :> 4 @@
    "5" :> 5 @@ "6" :> 6 @@ "7" :> 7 @@ "8" :> 8 @@ "9" :> 9

\* int(digits)
RECURSIVE int(_)
int(ds) ==
    IF ds = <<>> THEN 0
    ELSE 10 * int(SubSeq(ds, 1, Len(ds) - 1)) + DigitValue[ds[Len(ds)]]

\* str(n) of a natural number, as the f-string formats it
RECURSIVE str(_)
str(n) ==
    LET d == CHOOSE ch \in Digit : DigitValue[ch] = n % 10
    IN  IF n < 10 THEN <<d>> ELSE Append(str(n \div 10), d)

(* -------------------------- branch detection -------------------------- *)
\* what `git branch --show-current` prints on branch `name`
GitSays(name) == [returncode |-> 0, stdout |-> Chars[name] \o <<"\n">>]

\* subprocess.run(["git", "branch", "--show-current"]) outside a repository
GitFails == [returncode |-> 1, stdout |-> <<>>]

BranchNames == DOMAIN Chars \ {"42", "7", "5c.1", "5c", "3"}
BranchOutputs == {GitFails} \cup {GitSays(name) : name \in BranchNames}

\* a Python `str | None`
None == [is_none |-> TRUE, chars |-> <<>>]
Some(cs) == [is_none |-> FALSE, chars |-> cs]

\* _get_current_branch in the worktree of session s
get_current_branch(s) ==
    IF branch[s].returncode = 0 THEN Some(Strip(branch[s].stdout)) ELSE None

\* (mutant) the wave rule without an issue number is tried before the two
\* wave rules with one
parse_branch_context_WaveFirst(b) ==
    LET cs == b.chars
        n == DigitRun(cs, 7)
        x == WaveRun(cs, 6)
        m == DigitRun(cs, x + 2)
    IN  IF b.is_none \/ cs = <<>> THEN [type |-> "unknown"]
        ELSE IF StartsWith(cs, Chars["issue-"]) /\ n >= 7
            THEN [type |-> "issue", issue |-> int(SubSeq(cs, 7, n))]
        ELSE IF StartsWith(cs, Chars["wave-"]) /\ x >= 6
            THEN [type |-> "wave", wave |-> SubSeq(cs, 6, x)]
        ELSE IF /\ StartsWith(cs, Chars["wave-"]) /\ x >= 6
                /\ x < Len(cs) /\ cs[x + 1] \in {".", "-"} /\ m >= x + 2
            THEN [type |-> "wave", wave |-> SubSeq(cs, 6, x),
                  issue |-> int(SubSeq(cs, x + 2, m))]
        ELSE [type |-> "branch", name |-> cs]

\* _parse_branch_context: the four regular expressions in order, then the
\* fallback
parse_branch_context(b) ==
    LET cs == b.chars
        n == DigitRun(cs, 7)
        x == WaveRun(cs, 6)
        m == DigitRun(cs, x + 2)
    IN  IF b.is_none \/ cs = <<>> THEN [type |-> "unknown"]
        ELSE IF StartsWith(cs, Chars["issue-"]) /\ n >= 7
            THEN [type |-> "issue", issue |-> int(SubSeq(cs, 7, n))]
        ELSE IF /\ StartsWith(cs, Chars["wave-"]) /\ x >= 6
                /\ x < Len(cs) /\ cs[x + 1] = "." /\ m >= x + 2
            THEN [type |-> "wave", wave |-> SubSeq(cs, 6, x),
                  issue |-> int(SubSeq(cs, x + 2, m))]
        ELSE IF /\ StartsWith(cs, Chars["wave-"]) /\ x >= 6
                /\ x < Len(cs) /\ cs[x + 1] = "-" /\ m >= x + 2
            THEN [type |-> "wave", wave |-> SubSeq(cs, 6, x),
                  issue |-> int(SubSeq(cs, x + 2, m))]
        ELSE IF StartsWith(cs, Chars["wave-"]) /\ x >= 6
            THEN [type |-> "wave", wave |-> SubSeq(cs, 6, x)]
        ELSE [type |-> "branch", name |-> cs]

\* _context_to_lock_key: the lock name, as its segments between ':'
context_to_lock_key(context) ==
    IF context.type = "issue" THEN <<"issue", Text(str(context.issue))>>
    ELSE IF context.type = "wave" THEN
        IF "issue" \in DOMAIN context
            THEN <<"wave", Text(context.wave \o <<".">> \o str(context.issue))>>
            ELSE <<"wave", Text(context.wave)>>
    ELSE IF context.type = "branch" THEN <<"branch", Text(context.name)>>
    ELSE <<"unknown">>

\* `if lock_name == "work" or auto_detect`: the name is replaced by the one
\* the branch gives (the server never passes auto_detect, so it is False)
AutoDetect(c, lock_name) ==
    IF lock_name = <<"work">>
        THEN context_to_lock_key(parse_branch_context(get_current_branch(SessOf(c))))
        ELSE lock_name

(* ------------------------- key/value backend -------------------------- *)
Absent == [present |-> FALSE]
NoTTL == -1

\* r.get(key): the stored entry, or Absent (None)
KvGet(store, key) == store[key]

\* r.set(key, value): unconditional write, no expiry
KvSet(store, key, value) ==
    [store EXCEPT ![key] = [present |-> TRUE, val |-> value, exp |-> NoTTL]]

\* (mutant) the write forgets ex=: the key never expires
KvSetEx_NoExpiry(store, key, value, ttl) == KvSet(store, key, value)

\* r.set(key, value, ex=ttl): unconditional write, expiry ttl seconds from now
KvSetEx(store, key, value, ttl) ==
    [store EXCEPT ![key] = [present |-> TRUE, val |-> value, exp |-> now + ttl]]

\* r.set(key, value, nx=True, ex=ttl): write only when the key is absent
KvSetNxEx(store, key, value, ttl) ==
    IF store[key] = Absent THEN KvSetEx(store, key, value, ttl) ELSE store

\* r.expire(key, ttl): new expiry on an existing key, nothing on a missing
\* one; the backend deletes a key that is given a timeout of 0 or less
KvExpire(store, key, ttl) ==
    IF store[key] = Absent THEN store
    ELSE IF ttl <= 0 THEN [store EXCEPT ![key] = Absent]
    ELSE [store EXCEPT ![key].exp = now + ttl]

\* r.set(..., ex=ttl) with ttl of 0 or less: the backend answers "invalid
\* expire time" and the client raises
SetRaises(ttl) == ttl <= 0

\* (mutant) the delete misses the key
KvDelete_Misses(store, key) == store

\* r.delete(key)
KvDelete(store, key) == [store EXCEPT ![key] = Absent]

\* r.keys(pattern) with pattern prefix:* : every present key of the namespace
KvKeys(store) == {k \in DOMAIN store : store[k] # Absent}

\* r.keys(key_pattern): the present keys the glob pattern matches; a '*' that
\* ends the pattern stands for any rest of the key, and a pattern without '*'
\* matches the key equal to it
KvKeysLike(store, key_pattern) ==
    LET n == Len(key_pattern)
    IN  {k \in KvKeys(store) :
            IF key_pattern[n] = "*"
                THEN Len(k) >= n /\ SubSeq(k, 1, n - 1) = SubSeq(key_pattern, 1, n - 1)
                ELSE k = key_pattern}

\* the orders in which r.keys() may list a set of keys
Orders(S) ==
    {q \in [1..Cardinality(S) -> S] : \A i, j \in DOMAIN q : i # j => q[i] # q[j]}

\* the backend timer at time t: keys whose expiry has been reached are gone
KvExpireAt(store, t) ==
    [k \in DOMAIN store |->
        IF store[k] # Absent /\ store[k].exp # NoTTL /\ store[k].exp <= t
            THEN Absent ELSE store[k]]

(* ------------------------------ results ------------------------------- *)
NoResult ==
    [op |-> "none", call |-> 0, session |-> "none", lock_name |-> <<>>,
     success |-> FALSE, reason |-> "none", extended |-> FALSE,
     held_by |-> "none", worktree |-> <<>>, acquired_at |-> -1,
     expires_at |-> -1, key |-> <<>>, available |-> FALSE, is_mine |-> FALSE,
     released_locks |-> <<>>, clean |-> FALSE, owned0 |-> {},
     raised |-> FALSE, deleted |-> <<>>, registered_at |-> -1,
     timestamp |-> -1, sessions |-> <<>>, asked_at |-> -1,
     seen |-> {}, token |-> <<>>, timeout |-> 0,
     count |-> -1, locks |-> <<>>, pattern |-> <<>>,
     connected |-> FALSE, error |-> FALSE]

Result(c, op, fields) ==
    [f \in DOMAIN NoResult |->
        IF f \in DOMAIN fields THEN fields[f]
        ELSE IF f = "op" THEN op
        ELSE IF f = "call" THEN c
        ELSE IF f = "session" THEN SessOf(c)
        ELSE NoResult[f]]

(* ------------------------------- locals ------------------------------- *)
NoData == [session_id |-> "none", acquired_at |-> -1, expires_at |-> -1,
           worktree |-> <<>>]
NoSessionData == [session_id |-> "none", started_at |-> -1, worktree |-> <<>>,
                  status |-> "none", last_heartbeat |-> -1]
NoLoc == [token |-> <<>>, lock_name |-> <<>>, timeout |-> 0, data |-> NoData, expires_at |-> -1,
          all_locks |-> <<>>, released |-> <<>>, owned0 |-> {},
          deleted |-> <<>>, started |-> -1,
          session_keys |-> <<>>, session_data |-> NoSessionData,
          entries |-> <<>>, pattern |-> <<>>]

\* lease[k][s]: the time until which the last successful acquire of k by s
\* runs (0: none, released, or run out), the acquired_at of the record
\* written when that lease began, and the token of that acquire
NoLease == [until |-> 0, since |-> -1, token |-> <<>>]

\* presence[s]: the clock read by the last register of s that completed, with
\* no unregister step of s since; the clock read by the last heartbeat call of
\* s that completed, with no register, heartbeat or unregister step of s since
\* (-1: none); the session_status calls in flight that began after that
\* register completed; whether an unregister of s has deleted the session
\* key with no register of s writing it since
NoPresence ==
    [registered_at |-> -1, beat_at |-> -1, watchers |-> {}, gone |-> FALSE]

\* presence[s] after an unregister step of s other than the delete of the
\* session key
Cleared(s) == [NoPresence EXCEPT !.gone = presence[s].gone]

\* the class attributes of Config: what from_env yields in an empty environment
DefaultConfig ==
    [HEARTBEAT_TTL |-> 300, ACTIVE_THRESHOLD |-> 300, IDLE_THRESHOLD |-> 3600,
     STALE_THRESHOLD |-> 14400, ABANDONED_THRESHOLD |-> 86400]

\* Config.from_env: each field is int(os.getenv(FIELD, default)); nothing
\* else is looked at
from_env(environ) ==
    [f \in DOMAIN DefaultConfig |->
        IF f \in DOMAIN environ THEN environ[f] ELSE DefaultConfig[f]]

\* environments the server is started in: nothing set; a heartbeat TTL of 25
\* hours; a heartbeat TTL of one hour with ACTIVE_THRESHOLD and IDLE_THRESHOLD
\* swapped
Environments ==
    {<<>>,
     [HEARTBEAT_TTL |-> 90000],
     [HEARTBEAT_TTL |-> 3600, ACTIVE_THRESHOLD |-> 3600, IDLE_THRESHOLD |-> 300]}

InitKeys(ts, cfg, br, keys) ==
    /\ tasks = ts
    /\ config = cfg
    /\ branch = br
    /\ now = 0
    /\ locks = [k \in keys |-> Absent]
    /\ sessions = [k \in SessionKeys |-> Absent]
    /\ heartbeats = [k \in HeartbeatKeys |-> Absent]
    /\ pc = [c \in Calls |-> "idle"]
    /\ loc = [c \in Calls |-> NoLoc]
    /\ last = NoResult
    /\ lease = [k \in keys |-> [s \in Sessions |-> NoLease]]
    /\ relBy = [k \in keys |-> {}]
    /\ cleanCalls = [k \in keys |-> {}]
    /\ cleanWinners = [k \in keys |-> {}]
    /\ presence = [s \in Sessions |-> NoPresence]

InitEnv(ts, cfg, br) == InitKeys(ts, cfg, br, LockKeys)

InitWith(ts) == InitEnv(ts, DefaultConfig, [s \in Sessions |-> GitFails])

Init == \E ts \in Deployments : InitWith(ts)

(* --------------------------- history updates -------------------------- *)
\* session_status call c begins: it watches the sessions registered by now
Watch(c) ==
    [s \in Sessions |->
        IF presence[s].registered_at # -1
            THEN [presence[s] EXCEPT !.watchers = @ \cup {c}] ELSE presence[s]]

Unwatch(c) == [s \in Sessions |-> [presence[s] EXCEPT !.watchers = @ \ {c}]]

\* the sessions that stayed registered from the start of call c until now
Watched(c) == {s \in Sessions : c \in presence[s].watchers}

\* a register, heartbeat or unregister step of session s
Touch(s, p) == presence' = [presence EXCEPT ![s] = p]

\* key k left the backend (explicit delete or TTL expiry): the race among the
\* acquires that started on the free key is over
Removed(f, ks) == [k \in DOMAIN f |-> IF k \in ks THEN {} ELSE f[k]]

Return(c, result) ==
    /\ pc' = [pc EXCEPT ![c] = "idle"]
    /\ loc' = [loc EXCEPT ![c] = NoLoc]
    /\ last' = result

Goto(c, label, locals) ==
    /\ pc' = [pc EXCEPT ![c] = label]
    /\ loc' = [loc EXCEPT ![c] = locals]
    /\ last' = NoResult

\* a task takes its next request when it is idle
CanStart(c) == c \in tasks /\ pc[c] = "idle"

(* ------------------------------ acquire ------------------------------- *)
\* lock_data built after the first read found no record
NewLockData(s, ttl) ==
    [session_id |-> s, acquired_at |-> now, expires_at |-> now + ttl,
     worktree |-> Worktree(s)]

\* (mutant) the extend restarts the record: acquired_at is overwritten too
ExtendedData_Restart(data, expires_at) ==
    [data EXCEPT !.acquired_at = now, !.expires_at = expires_at]

\* the record the owner's extend writes back: the record it read, with
\* data["expires_at"] replaced
ExtendedData(data, expires_at) == [data EXCEPT !.expires_at = expires_at]

\* (mutant) the refusal names the caller as the holder
LockHeld_NamesCaller(c, lock_name, data) ==
    Result(c, "acquire",
           [lock_name |-> lock_name, success |-> FALSE, reason |-> "lock_held",
            held_by |-> SessOf(c), worktree |-> Worktree(SessOf(c)),
            acquired_at |-> data.acquired_at, expires_at |-> data.expires_at])

\* return {"success": False, "reason": "lock_held", "held_by": ..., ...}
LockHeld(c, lock_name, data) ==
    Result(c, "acquire",
           [lock_name |-> lock_name, success |-> FALSE, reason |-> "lock_held",
            held_by |-> data.session_id, worktree |-> data.worktree,
            acquired_at |-> data.acquired_at, expires_at |-> data.expires_at])

\* existing = await r.get(key), and the code up to the next await
Acquire_Get(c, t, ttl) ==
    /\ CanStart(c)
    /\ LET lock_name == AutoDetect(c, t)
           key == LockKey(lock_name)
           existing == KvGet(locks, key)
       IN  \/ /\ existing # Absent
              /\ existing.val.session_id = SessOf(c)
              /\ Goto(c, "acq_expire",
                      [NoLoc EXCEPT !.token = t, !.lock_name = lock_name,
                                    !.timeout = ttl, !.data = existing.val])
              /\ UNCHANGED <<cleanCalls>>
           \/ /\ existing # Absent
              /\ existing.val.session_id # SessOf(c)
              /\ Return(c, [LockHeld(c, lock_name, existing.val)
                                EXCEPT !.token = t, !.timeout = ttl])
              /\ UNCHANGED <<cleanCalls>>
           \/ /\ existing = Absent
              /\ Goto(c, "acq_setnx",
                      [NoLoc EXCEPT !.token = t, !.lock_name = lock_name,
                                    !.timeout = ttl,
                                    !.data = NewLockData(SessOf(c), ttl)])
              /\ cleanCalls' = [cleanCalls EXCEPT ![key] = @ \cup {c}]
    /\ UNCHANGED <<env, presence, now, backend, lease, relBy, cleanWinners>>

\* await r.expire(key, timeout_seconds); data["expires_at"] = now + timeout
Acquire_Expire(c) ==
    /\ pc[c] = "acq_expire"
    /\ LET key == LockKey(loc[c].lock_name)
       IN  /\ locks' = KvExpire(locks, key, loc[c].timeout)
           \* the owner's own request resets the running time of its lease
           /\ lease' = [lease EXCEPT ![key][SessOf(c)] =
                  IF @.until > now /\ locks[key] # Absent
                     /\ locks[key].val.session_id = SessOf(c)
                      THEN IF loc[c].timeout <= 0 THEN NoLease
                           ELSE [@ EXCEPT !.until = now + loc[c].timeout]
                      ELSE @]
           /\ LET gone == IF locks[key] # Absent /\ locks'[key] = Absent
                              THEN {key} ELSE {}
              IN  /\ cleanCalls' = Removed(cleanCalls, gone)
                  /\ cleanWinners' = Removed(cleanWinners, gone)
    /\ Goto(c, "acq_set", [loc[c] EXCEPT !.expires_at = now + loc[c].timeout])
    /\ UNCHANGED <<env, presence, now, sessions, heartbeats, relBy>>

\* what the caller of acquire_lock sees when r.set raises: no dict, the
\* exception of the backend client
AcquireRaised(c) ==
    Result(c, "acquire",
           [token |-> loc[c].token, timeout |-> loc[c].timeout,
            lock_name |-> loc[c].lock_name, success |-> FALSE, raised |-> TRUE])

\* the history of a successful acquire of key by call c
Granted(c, key, ttl, fresh) ==
    /\ lease' = [lease EXCEPT ![key][SessOf(c)] =
            [until |-> now + ttl,
             since |-> IF @.until > now THEN @.since ELSE locks'[key].val.acquired_at,
             token |-> loc[c].token]]
    /\ relBy' = [relBy EXCEPT ![key] = {}]
    /\ cleanWinners' = [cleanWinners EXCEPT ![key] =
            IF fresh THEN @ \cup {SessOf(c)} ELSE @]
    /\ cleanCalls' = [cleanCalls EXCEPT ![key] = @ \ {c}]

\* await r.set(key, json.dumps(data), ex=timeout_seconds); return extended
Acquire_Set(c) ==
    /\ pc[c] = "acq_set"
    /\ LET key == LockKey(loc[c].lock_name)
           data == ExtendedData(loc[c].data, loc[c].expires_at)
       IN  IF SetRaises(loc[c].timeout)
               THEN /\ locks' = locks
                    /\ Return(c, AcquireRaised(c))
                    /\ cleanCalls' = [cleanCalls EXCEPT ![key] = @ \ {c}]
                    /\ UNCHANGED <<lease, relBy, cleanWinners>>
               ELSE /\ locks' = KvSetEx(locks, key, data, loc[c].timeout)
                    /\ Granted(c, key, loc[c].timeout, FALSE)
                    /\ Return(c, Result(c, "acquire",
                           [token |-> loc[c].token, timeout |-> loc[c].timeout,
                            lock_name |-> loc[c].lock_name, success |-> TRUE,
                            extended |-> TRUE, expires_at |-> data.expires_at,
                            clean |-> c \in cleanCalls[key]]))
    /\ UNCHANGED <<env, presence, now, sessions, heartbeats>>

\* acquired = await r.set(key, json.dumps(lock_data), nx=True, ex=timeout)
Acquire_SetNx(c) ==
    /\ pc[c] = "acq_setnx"
    /\ LET key == LockKey(loc[c].lock_name)
       IN  IF SetRaises(loc[c].timeout)
               THEN /\ locks' = locks
                    /\ Return(c, AcquireRaised(c))
                    /\ cleanCalls' = [cleanCalls EXCEPT ![key] = @ \ {c}]
                    /\ UNCHANGED <<lease, relBy, cleanWinners>>
               ELSE /\ locks' = KvSetNxEx(locks, key, loc[c].data, loc[c].timeout)
                    /\ \/ /\ locks[key] = Absent
                          /\ Granted(c, key, loc[c].timeout, TRUE)
                          /\ Return(c, Result(c, "acquire",
                                 [token |-> loc[c].token,
                                  timeout |-> loc[c].timeout,
                                  lock_name |-> loc[c].lock_name,
                                  success |-> TRUE, key |-> key,
                                  expires_at |-> loc[c].data.expires_at,
                                  clean |-> c \in cleanCalls[key]]))
                       \/ /\ locks[key] # Absent
                          /\ Goto(c, "acq_reget", loc[c])
                          /\ UNCHANGED history
    /\ UNCHANGED <<env, presence, now, sessions, heartbeats>>

\* existing = await r.get(key) after the set-if-absent failed
Acquire_ReGet(c) ==
    /\ pc[c] = "acq_reget"
    /\ LET key == LockKey(loc[c].lock_name)
           existing == KvGet(locks, key)
       IN  /\ \/ /\ existing # Absent
                 /\ Return(c, Result(c, "acquire",
                        [token |-> loc[c].token, timeout |-> loc[c].timeout,
                         lock_name |-> loc[c].lock_name, success |-> FALSE,
                         reason |-> "race_condition",
                         held_by |-> existing.val.session_id,
                         clean |-> c \in cleanCalls[key]]))
              \/ /\ existing = Absent
                 /\ Return(c, Result(c, "acquire",
                        [token |-> loc[c].token, timeout |-> loc[c].timeout,
                         lock_name |-> loc[c].lock_name, success |-> FALSE,
                         reason |-> "unknown",
                         clean |-> c \in cleanCalls[key]]))
           /\ cleanCalls' = [cleanCalls EXCEPT ![key] = @ \ {c}]
    /\ UNCHANGED <<env, presence, now, backend, lease, relBy, cleanWinners>>

\* the await acquire_lock is suspended at raises (a backend error, or the
\* task is cancelled): nothing in acquire_lock catches it, the call ends
\* there and the backend call it was about to make is not made
Acquire_Aborts(c) ==
    /\ pc[c] \in {"acq_expire", "acq_set", "acq_setnx", "acq_reget"}
    /\ Return(c, AcquireRaised(c))
    /\ cleanCalls' = [cleanCalls EXCEPT ![LockKey(loc[c].lock_name)] = @ \ {c}]
    /\ UNCHANGED <<env, presence, now, backend, lease, relBy, cleanWinners>>

(* ------------------------------ release ------------------------------- *)
\* (mutant) a missing lock counts as released
ReleaseNotFound_AsReleased(c, t) ==
    Result(c, "release", [lock_name |-> t, success |-> TRUE])

\* return {"success": False, "reason": "lock_not_found"}
ReleaseNotFound(c, t) ==
    Result(c, "release",
           [lock_name |-> t, success |-> FALSE, reason |-> "lock_not_found"])

\* existing = await r.get(key), and the two early returns
Release_Get(c, t) ==
    /\ CanStart(c)
    /\ LET lock_name == AutoDetect(c, t)
           key == LockKey(lock_name)
           existing == KvGet(locks, key)
       IN  \/ /\ existing = Absent
              /\ Return(c, [ReleaseNotFound(c, lock_name) EXCEPT !.token = t])
           \/ /\ existing # Absent
              /\ existing.val.session_id # SessOf(c)
              /\ Return(c, Result(c, "release",
                     [token |-> t, lock_name |-> lock_name, success |-> FALSE,
                      reason |-> "not_owner",
                      held_by |-> existing.val.session_id]))
           \/ /\ existing # Absent
              /\ existing.val.session_id = SessOf(c)
              /\ Goto(c, "rel_del",
                      [NoLoc EXCEPT !.token = t, !.lock_name = lock_name])
    /\ UNCHANGED <<env, presence, now, backend, history>>

\* await r.delete(key); return success
Release_Delete(c) ==
    /\ pc[c] = "rel_del"
    /\ LET key == LockKey(loc[c].lock_name)
       IN  /\ locks' = KvDelete(locks, key)
           /\ lease' = [lease EXCEPT ![key][SessOf(c)] = NoLease]
           /\ relBy' = [relBy EXCEPT ![key] = @ \cup {SessOf(c)}]
           /\ cleanCalls' = Removed(cleanCalls, {key})
           /\ cleanWinners' = Removed(cleanWinners, {key})
           /\ Return(c, Result(c, "release",
                  [token |-> loc[c].token, lock_name |-> loc[c].lock_name,
                   success |-> TRUE]))
    /\ UNCHANGED <<env, presence, now, sessions, heartbeats>>

(* ------------------------------- check -------------------------------- *)
Check(c, t) ==
    /\ CanStart(c)
    /\ LET lock_name == AutoDetect(c, t)
           key == LockKey(lock_name)
           existing == KvGet(locks, key)
       IN  \/ /\ existing = Absent
              /\ Return(c, Result(c, "check",
                     [token |-> t, lock_name |-> lock_name, available |-> TRUE]))
           \/ /\ existing # Absent
              /\ Return(c, Result(c, "check",
                     [token |-> t, lock_name |-> lock_name, available |-> FALSE,
                      held_by |-> existing.val.session_id,
                      is_mine |-> existing.val.session_id = SessOf(c),
                      worktree |-> existing.val.worktree,
                      acquired_at |-> existing.val.acquired_at,
                      expires_at |-> existing.val.expires_at]))
    /\ UNCHANGED <<env, presence, now, backend, history>>

(* ----------------------------- list_locks ----------------------------- *)
\* the dict appended for a key whose record was read
ListEntry(c, key, lock_info) ==
    [name |-> KeyToName(key), held_by |-> lock_info.session_id,
     is_mine |-> lock_info.session_id = SessOf(c),
     worktree |-> lock_info.worktree, acquired_at |-> lock_info.acquired_at,
     expires_at |-> lock_info.expires_at]

\* return {"count": len(locks), "locks": locks, "pattern": pattern}
ListResult(c, entries, pattern) ==
    Result(c, "list", [count |-> Len(entries), locks |-> entries,
                       pattern |-> pattern])

\* the loop `for key in keys` with `rest` left to read, or the return
AfterListKey(c, rest, entries, pattern) ==
    IF rest = <<>>
        THEN Return(c, ListResult(c, entries, pattern))
        ELSE Goto(c, "list_get",
                  [NoLoc EXCEPT !.all_locks = rest, !.entries = entries,
                                !.pattern = pattern])

\* keys = await r.keys(f"{LOCK_PREFIX}:{pattern}")
List_Keys(c, pattern) ==
    /\ CanStart(c)
    /\ \E keys \in Orders(KvKeysLike(locks, LOCK_PREFIX \o pattern)) :
          AfterListKey(c, keys, <<>>, pattern)
    /\ UNCHANGED <<env, presence, now, backend, history>>

\* data = await r.get(key); `if data:` append the entry
List_Get(c) ==
    /\ pc[c] = "list_get"
    /\ LET key == Head(loc[c].all_locks)
           data == KvGet(locks, key)
           entries == IF data # Absent
                          THEN Append(loc[c].entries, ListEntry(c, key, data.val))
                          ELSE loc[c].entries
       IN  AfterListKey(c, Tail(loc[c].all_locks), entries, loc[c].pattern)
    /\ UNCHANGED <<env, presence, now, backend, history>>

\* what the caller of list_locks sees when an await or json.loads raises: no
\* dict, the exception (key: the key whose read failed, if it was a read)
ListRaised(c) ==
    Result(c, "list",
           [success |-> FALSE, raised |-> TRUE,
            key |-> IF pc[c] = "list_get" THEN Head(loc[c].all_locks) ELSE <<>>])

\* r.keys or r.get raises, or json.loads meets a value that is no JSON:
\* nothing in list_locks catches the exception, the call ends there
List_Raises(c) ==
    /\ CanStart(c) \/ pc[c] = "list_get"
    /\ Return(c, ListRaised(c))
    /\ UNCHANGED <<env, presence, now, backend, history>>

(* --------------------------- name resolution -------------------------- *)
\* the worktree of session s is switched to another branch (or leaves the
\* repository): from now on git answers `out` there
Checkout(s, out) ==
    /\ out # branch[s]
    /\ branch' = [branch EXCEPT ![s] = out]
    /\ last' = NoResult
    /\ UNCHANGED <<tasks, config, presence, now, backend, pc, loc, history>>

\* the code acquire_lock, release_lock and check_lock run before their first
\* await: the name the token stands for now, and the key built from it
Resolve(c, t) ==
    /\ CanStart(c)
    /\ LET lock_name == AutoDetect(c, t)
       IN  last' = Result(c, "resolve",
                      [token |-> t, lock_name |-> lock_name,
                       key |-> LockKey(lock_name)])
    /\ UNCHANGED <<env, presence, now, backend, pc, loc, history>>

(* ------------------------------ register ------------------------------ *)
\* (mutant) the record is written with the tier a fresh session would age to
SessionData_Idle(s, started_at) ==
    [session_id |-> s, started_at |-> started_at, worktree |-> Worktree(s),
     status |-> "idle", last_heartbeat |-> -1]

\* session_data of register_session (metadata is opaque and left out)
SessionData(s, started_at) ==
    [session_id |-> s, started_at |-> started_at, worktree |-> Worktree(s),
     status |-> "active", last_heartbeat |-> -1]

\* now = datetime.now(); await r.set(session_key, json.dumps(session_data))
Register_SetSession(c) ==
    /\ CanStart(c)
    /\ sessions' = KvSet(sessions, SessionKey(SessOf(c)), SessionData(SessOf(c), now))
    /\ Goto(c, "reg_sethb", [NoLoc EXCEPT !.started = now])
    /\ Touch(SessOf(c), [presence[SessOf(c)] EXCEPT !.beat_at = -1, !.gone = FALSE])
    /\ UNCHANGED <<env, now, locks, heartbeats, history>>

\* await r.set(heartbeat_key, now.isoformat(), ex=config.HEARTBEAT_TTL); return
Register_SetHeartbeat(c) ==
    /\ pc[c] = "reg_sethb"
    /\ heartbeats' = KvSetEx(heartbeats, HeartbeatKey(SessOf(c)), loc[c].started,
                             config.HEARTBEAT_TTL)
    /\ Return(c, Result(c, "register",
           [success |-> TRUE, registered_at |-> loc[c].started]))
    /\ Touch(SessOf(c), [registered_at |-> loc[c].started, beat_at |-> -1,
                          watchers |-> {}, gone |-> presence[SessOf(c)].gone])
    /\ UNCHANGED <<env, now, locks, sessions, history>>

(* ------------------------------ heartbeat ----------------------------- *)
\* now = datetime.now(); await r.set(heartbeat_key, now.isoformat(), ex=HEARTBEAT_TTL)
Heartbeat_Set(c) ==
    /\ CanStart(c)
    /\ heartbeats' = KvSetEx(heartbeats, HeartbeatKey(SessOf(c)), now,
                             config.HEARTBEAT_TTL)
    /\ Goto(c, "hb_get", [NoLoc EXCEPT !.started = now])
    /\ Touch(SessOf(c), [presence[SessOf(c)] EXCEPT !.beat_at = -1])
    /\ UNCHANGED <<env, now, locks, sessions, history>>

\* (mutant) a heartbeat that finds no record writes a fresh one
Heartbeat_Get_Creates(c) ==
    /\ pc[c] = "hb_get"
    /\ LET session_data == KvGet(sessions, SessionKey(SessOf(c)))
           data == IF session_data # Absent THEN session_data.val
                   ELSE SessionData(SessOf(c), loc[c].started)
       IN  Goto(c, "hb_setsess",
                [loc[c] EXCEPT !.session_data =
                    [data EXCEPT !.status = "active",
                                 !.last_heartbeat = loc[c].started]])
    /\ UNCHANGED <<env, now, backend, history, presence>>

\* session_data = await r.get(session_key); without a record the call returns
Heartbeat_Get(c) ==
    /\ pc[c] = "hb_get"
    /\ LET session_data == KvGet(sessions, SessionKey(SessOf(c)))
       IN  IF session_data # Absent
               THEN /\ Goto(c, "hb_setsess",
                            [loc[c] EXCEPT !.session_data =
                                [session_data.val EXCEPT
                                    !.status = "active",
                                    !.last_heartbeat = loc[c].started]])
                    /\ UNCHANGED presence
               ELSE /\ Return(c, Result(c, "heartbeat",
                           [success |-> TRUE, timestamp |-> loc[c].started]))
                    /\ Touch(SessOf(c), [presence[SessOf(c)] EXCEPT
                                            !.beat_at = loc[c].started])
    /\ UNCHANGED <<env, now, backend, history>>

\* await r.set(session_key, json.dumps(data)); return
Heartbeat_SetSession(c) ==
    /\ pc[c] = "hb_setsess"
    /\ sessions' = KvSet(sessions, SessionKey(SessOf(c)), loc[c].session_data)
    /\ Return(c, Result(c, "heartbeat",
           [success |-> TRUE, timestamp |-> loc[c].started]))
    /\ Touch(SessOf(c), [presence[SessOf(c)] EXCEPT !.beat_at = loc[c].started])
    /\ UNCHANGED <<env, now, locks, heartbeats, history>>

\* what the caller of heartbeat sees when an await raises: no dict, the
\* exception of the backend client
HeartbeatRaised(c) ==
    Result(c, "heartbeat", [success |-> FALSE, raised |-> TRUE])

\* the read or the write of the session record fails after the heartbeat key
\* is written: nothing in heartbeat catches the exception, the call ends there
Heartbeat_Raises(c) ==
    /\ pc[c] \in {"hb_get", "hb_setsess"}
    /\ Return(c, HeartbeatRaised(c))
    /\ UNCHANGED <<env, now, backend, history, presence>>

(* --------------------------- session_status --------------------------- *)
\* (mutant) the first branch of the chain is gone
Tier_NeverActive(age_seconds) ==
    IF age_seconds < config.IDLE_THRESHOLD THEN "idle"
    ELSE IF age_seconds < config.STALE_THRESHOLD THEN "stale"
    ELSE "abandoned"

\* the if/elif chain of session_status over age_seconds
Tier(age_seconds) ==
    IF age_seconds < config.ACTIVE_THRESHOLD THEN "active"
    ELSE IF age_seconds < config.IDLE_THRESHOLD THEN "idle"
    ELSE IF age_seconds < config.STALE_THRESHOLD THEN "stale"
    ELSE "abandoned"

\* the dict appended to `sessions` for one session record; heartbeat_age_seconds
\* is None exactly when has_heartbeat is FALSE
StatusEntry(c, data, heartbeat, at) ==
    [session_id |-> data.session_id,
     is_me |-> data.session_id = SessOf(c),
     status |-> IF heartbeat # Absent THEN Tier(at - heartbeat.val)
                ELSE "no_heartbeat",
     has_heartbeat |-> heartbeat # Absent,
     heartbeat_age_seconds |-> IF heartbeat # Absent THEN at - heartbeat.val ELSE 0]

StatusResult(c, entries, at, seen) ==
    Result(c, "status", [success |-> TRUE, sessions |-> entries,
                         asked_at |-> at, seen |-> seen])

\* the end of one round of `for key in session_keys`
AfterSession(c, rest, entries) ==
    IF rest = <<>>
        THEN /\ Return(c, StatusResult(c, entries, loc[c].started, Watched(c)))
             /\ presence' = Unwatch(c)
        ELSE /\ Goto(c, "st_get",
                     [loc[c] EXCEPT !.session_keys = rest, !.entries = entries,
                                    !.session_data = NoSessionData])
             /\ UNCHANGED presence

\* session_keys = await r.keys("claude:sessions:*"); now = datetime.now()
Status_Keys(c) ==
    /\ CanStart(c)
    /\ \E session_keys \in Orders(KvKeys(sessions)) :
          IF session_keys = <<>>
              THEN /\ Return(c, StatusResult(c, <<>>, now, {}))
                   /\ UNCHANGED presence
              ELSE /\ Goto(c, "st_get",
                           [NoLoc EXCEPT !.session_keys = session_keys,
                                         !.started = now])
                   /\ presence' = Watch(c)
    /\ UNCHANGED <<env, now, backend, history>>

\* session_data = await r.get(key); a key that is gone by now is skipped
Status_GetSession(c) ==
    /\ pc[c] = "st_get"
    /\ LET session_data == KvGet(sessions, Head(loc[c].session_keys))
       IN  IF session_data = Absent
               THEN AfterSession(c, Tail(loc[c].session_keys), loc[c].entries)
               ELSE /\ Goto(c, "st_gethb",
                            [loc[c] EXCEPT !.session_data = session_data.val])
                    /\ UNCHANGED presence
    /\ UNCHANGED <<env, now, backend, history>>

\* heartbeat = await r.get(heartbeat_key); the tier; sessions.append(...)
Status_GetHeartbeat(c) ==
    /\ pc[c] = "st_gethb"
    /\ LET heartbeat == KvGet(heartbeats, HeartbeatKey(loc[c].session_data.session_id))
           entry == StatusEntry(c, loc[c].session_data, heartbeat, loc[c].started)
       IN  AfterSession(c, Tail(loc[c].session_keys), Append(loc[c].entries, entry))
    /\ UNCHANGED <<env, now, backend, history>>

(* ----------------------------- unregister ----------------------------- *)
\* (mutant) the session key is deleted as soon as the first key is handled
AfterKey_SessionFirst(rest) == "unreg_delsess"

\* where the loop `for key in all_locks` goes once `rest` is what is left
AfterKey(rest) == IF rest = <<>> THEN "unreg_delsess" ELSE "unreg_get"

\* all_locks = await r.keys("claude:locks:*")
Unregister_Keys(c) ==
    /\ CanStart(c)
    /\ \E all_locks \in Orders(KvKeys(locks)) :
          Goto(c, AfterKey(all_locks),
               [NoLoc EXCEPT !.all_locks = all_locks,
                    !.owned0 = {k \in KvKeys(locks) :
                                   locks[k].val.session_id = SessOf(c)}])
    /\ Touch(SessOf(c), Cleared(SessOf(c)))
    /\ UNCHANGED <<env, now, backend, history>>

\* data = await r.get(key) and the ownership test of the loop body
Unregister_Get(c) ==
    /\ pc[c] = "unreg_get"
    /\ LET key == Head(loc[c].all_locks)
           data == KvGet(locks, key)
       IN  IF data # Absent /\ data.val.session_id = SessOf(c)
               THEN Goto(c, "unreg_del", loc[c])
               ELSE Goto(c, AfterKey(Tail(loc[c].all_locks)),
                         [loc[c] EXCEPT !.all_locks = Tail(@)])
    /\ Touch(SessOf(c), Cleared(SessOf(c)))
    /\ UNCHANGED <<env, now, backend, history>>

\* await r.delete(key); released_locks.append(lock_name)
Unregister_Delete(c) ==
    /\ pc[c] = "unreg_del"
    /\ LET key == Head(loc[c].all_locks)
       IN  /\ locks' = KvDelete(locks, key)
           /\ lease' = [lease EXCEPT ![key][SessOf(c)] = NoLease]
           /\ cleanCalls' = Removed(cleanCalls, {key})
           /\ cleanWinners' = Removed(cleanWinners, {key})
           /\ Goto(c, AfterKey(Tail(loc[c].all_locks)),
                   [loc[c] EXCEPT !.all_locks = Tail(@),
                                  !.released = Append(@, KeyToName(key)),
                                  !.deleted = Append(@, key)])
    /\ Touch(SessOf(c), Cleared(SessOf(c)))
    /\ UNCHANGED <<env, now, sessions, heartbeats, relBy>>

\* await r.delete(session_key)
Unregister_DeleteSession(c) ==
    /\ pc[c] = "unreg_delsess"
    /\ sessions' = KvDelete(sessions, SessionKey(SessOf(c)))
    /\ Goto(c, "unreg_delhb",
            [loc[c] EXCEPT !.deleted = Append(@, SessionKey(SessOf(c)))])
    /\ Touch(SessOf(c), [NoPresence EXCEPT !.gone = TRUE])
    /\ UNCHANGED <<env, now, locks, heartbeats, history>>

\* await r.delete(heartbeat_key); return success
Unregister_DeleteHeartbeat(c) ==
    /\ pc[c] = "unreg_delhb"
    /\ heartbeats' = KvDelete(heartbeats, HeartbeatKey(SessOf(c)))
    /\ last' = [Result(c, "unregister",
                   [success |-> TRUE, released_locks |-> loc[c].released])
                EXCEPT !.owned0 = loc[c].owned0,
                       !.deleted = Append(loc[c].deleted, HeartbeatKey(SessOf(c)))]
    /\ pc' = [pc EXCEPT ![c] = "idle"]
    /\ loc' = [loc EXCEPT ![c] = NoLoc]
    /\ Touch(SessOf(c), Cleared(SessOf(c)))
    /\ UNCHANGED <<env, now, locks, sessions, history>>

\* (mutant) the failure is swallowed and the call reports success
UnregisterRaised_Swallowed(c) ==
    [Result(c, "unregister", [success |-> TRUE, released_locks |-> loc[c].released])
     EXCEPT !.deleted = loc[c].deleted]

\* what the caller of unregister_session sees when an await raises: no dict,
\* the exception of the backend client
UnregisterRaised(c) ==
    [Result(c, "unregister", [success |-> FALSE, raised |-> TRUE])
     EXCEPT !.deleted = loc[c].deleted]

\* the backend call unregister_session is about to make fails: nothing in
\* unregister_session catches the exception, the call ends there
Unregister_Raises(c) ==
    /\ \/ CanStart(c)
       \/ pc[c] \in {"unreg_get", "unreg_del", "unreg_delsess", "unreg_delhb"}
    /\ Return(c, UnregisterRaised(c))
    /\ Touch(SessOf(c), Cleared(SessOf(c)))
    /\ UNCHANGED <<env, now, backend, history>>

(* ---------------------------- health_check ---------------------------- *)
\* (mutant) the handler re-raises: the caller sees the exception
HealthFailed_Propagates(c) ==
    Result(c, "health_check", [raised |-> TRUE])

\* except Exception as e: return {"connected": False, "error": str(e)},
\* wrapped by the tool with server, port and session_id
HealthFailed(c) ==
    Result(c, "health_check", [connected |-> FALSE, error |-> TRUE])

\* return {"connected": pong, "redis_version": ..., "uptime_seconds": ...}
HealthOk(c, pong) ==
    Result(c, "health_check", [connected |-> pong])

\* try: client = await cls.get_client(); building the pool may raise
Health_Client(c) ==
    /\ CanStart(c)
    /\ \E raises \in BOOLEAN :
          IF raises THEN Return(c, HealthFailed(c))
          ELSE Goto(c, "hc_ping", NoLoc)
    /\ UNCHANGED <<env, presence, now, backend, history>>

\* pong = await client.ping(); an unreachable backend raises
Health_Ping(c) ==
    /\ pc[c] = "hc_ping"
    /\ \E raises \in BOOLEAN :
          IF raises THEN Return(c, HealthFailed(c))
          ELSE Goto(c, "hc_info", loc[c])
    /\ UNCHANGED <<env, presence, now, backend, history>>

\* info = await client.info("server"); return
Health_Info(c) ==
    /\ pc[c] = "hc_info"
    /\ \E raises \in BOOLEAN :
          IF raises THEN Return(c, HealthFailed(c))
          ELSE Return(c, HealthOk(c, TRUE))
    /\ UNCHANGED <<env, presence, now, backend, history>>

(* -------------------------------- time -------------------------------- *)
\* the clock reaches t; the backend drops the keys whose TTL has run out
ClockTo(t) ==
    /\ now' = t
    /\ locks' = KvExpireAt(locks, t)
    /\ heartbeats' = KvExpireAt(heartbeats, t)
    /\ sessions' = KvExpireAt(sessions, t)
    /\ LET gone == {k \in DOMAIN locks : locks[k] # Absent /\ locks'[k] = Absent}
       IN  /\ cleanCalls' = Removed(cleanCalls, gone)
           /\ cleanWinners' = Removed(cleanWinners, gone)
    /\ lease' = [k \in DOMAIN lease |-> [s \in Sessions |->
                    IF lease[k][s].until <= t THEN NoLease ELSE lease[k][s]]]
    /\ last' = NoResult
    /\ UNCHANGED <<env, presence, pc, loc, relBy>>

\* one second passes
Tick ==
    /\ now < MaxTime
    /\ ClockTo(now + 1)

\* the instants (seconds) at which the long-lived session state is looked at
Instants == <<0, 600, 7200, 18000, 86400>>

\* between two requests (none is in flight) the clock moves on to the next
\* of these instants
Advance ==
    \E i \in 1..(Len(Instants) - 1) :
        /\ \A c \in tasks : pc[c] = "idle"
        /\ now = Instants[i]
        /\ ClockTo(Instants[i + 1])

(* --------------------------- specification ---------------------------- *)
\* Lock traffic on one key: acquire, release, check, and the clock.
LockTokens == {<<"pytest">>}
Next ==
    \/ \E c \in Calls, t \in LockTokens, ttl \in TTLs : Acquire_Get(c, t, ttl)
    \/ \E c \in Calls : Acquire_Expire(c)
    \/ \E c \in Calls : Acquire_Set(c)
    \/ \E c \in Calls : Acquire_SetNx(c)
    \/ \E c \in Calls : Acquire_ReGet(c)
    \/ \E c \in Calls, t \in LockTokens : Release_Get(c, t)
    \/ \E c \in Calls : Release_Delete(c)
    \/ \E c \in Calls, t \in LockTokens : Check(c, t)
    \/ Tick

Spec == Init /\ [][Next]_vars

\* The same traffic with a clock that does not stop: the backend's timer
\* runs whatever the sessions do.
SpecLease == Init /\ [][Next]_vars /\ WF_vars(Tick)

\* Acquire that may fail or be cancelled at any of its awaits, and the clock.
NextAbort ==
    \/ \E c \in Calls, t \in LockTokens, ttl \in TTLs : Acquire_Get(c, t, ttl)
    \/ \E c \in Calls : Acquire_Expire(c)
    \/ \E c \in Calls : Acquire_Set(c)
    \/ \E c \in Calls : Acquire_SetNx(c)
    \/ \E c \in Calls : Acquire_ReGet(c)
    \/ \E c \in Calls : Acquire_Aborts(c)
    \/ Tick

SpecAbort == Init /\ [][NextAbort]_vars

\* Teardown: acquire on two keys (always with the longest timeout),
\* unregister, and the clock.
TeardownTTLs == {MaxTTL}
NextTeardown ==
    \/ \E c \in Calls, t \in Tokens, ttl \in TeardownTTLs : Acquire_Get(c, t, ttl)
    \/ \E c \in Calls : Acquire_Expire(c)
    \/ \E c \in Calls : Acquire_Set(c)
    \/ \E c \in Calls : Acquire_SetNx(c)
    \/ \E c \in Calls : Acquire_ReGet(c)
    \/ \E c \in Calls : Unregister_Keys(c)
    \/ \E c \in Calls : Unregister_Get(c)
    \/ \E c \in Calls : Unregister_Delete(c)
    \/ \E c \in Calls : Unregister_DeleteSession(c)
    \/ \E c \in Calls : Unregister_DeleteHeartbeat(c)
    \/ Tick

SpecTeardown == Init /\ [][NextTeardown]_vars

\* Teardown of registered sessions over a backend whose calls may fail; the
\* clock stands still.
NextCleanup ==
    \/ \E c \in Calls : Register_SetSession(c)
    \/ \E c \in Calls : Register_SetHeartbeat(c)
    \/ \E c \in Calls, t \in Tokens, ttl \in TeardownTTLs : Acquire_Get(c, t, ttl)
    \/ \E c \in Calls : Acquire_Expire(c)
    \/ \E c \in Calls : Acquire_Set(c)
    \/ \E c \in Calls : Acquire_SetNx(c)
    \/ \E c \in Calls : Acquire_ReGet(c)
    \/ \E c \in Calls : Unregister_Keys(c)
    \/ \E c \in Calls : Unregister_Get(c)
    \/ \E c \in Calls : Unregister_Delete(c)
    \/ \E c \in Calls : Unregister_DeleteSession(c)
    \/ \E c \in Calls : Unregister_DeleteHeartbeat(c)
    \/ \E c \in Calls : Unregister_Raises(c)

SpecCleanup == Init /\ [][NextCleanup]_vars

\* Session bookkeeping under each start-up environment, over hours.
InitSession ==
    \E ts \in Deployments, environ \in Environments :
        InitEnv(ts, from_env(environ), [s \in Sessions |-> GitFails])

NextSession ==
    \/ \E c \in Calls : Register_SetSession(c)
    \/ \E c \in Calls : Register_SetHeartbeat(c)
    \/ \E c \in Calls : Heartbeat_Set(c)
    \/ \E c \in Calls : Heartbeat_Get(c)
    \/ \E c \in Calls : Heartbeat_SetSession(c)
    \/ \E c \in Calls : Status_Keys(c)
    \/ \E c \in Calls : Status_GetSession(c)
    \/ \E c \in Calls : Status_GetHeartbeat(c)
    \/ \E c \in Calls : Unregister_Keys(c)
    \/ \E c \in Calls : Unregister_DeleteSession(c)
    \/ \E c \in Calls : Unregister_DeleteHeartbeat(c)
    \/ Advance

SpecSession == InitSession /\ [][NextSession]_vars

\* Register and heartbeat over a backend that may fail once the heartbeat key
\* is written.
NextBeat ==
    \/ \E c \in Calls : Register_SetSession(c)
    \/ \E c \in Calls : Register_SetHeartbeat(c)
    \/ \E c \in Calls : Heartbeat_Set(c)
    \/ \E c \in Calls : Heartbeat_Get(c)
    \/ \E c \in Calls : Heartbeat_SetSession(c)
    \/ \E c \in Calls : Heartbeat_Raises(c)
    \/ Advance

SpecBeat == InitSession /\ [][NextBeat]_vars

\* health_check next to acquire, release, register and heartbeat; the clock
\* stands still.
NextHealth ==
    \/ \E c \in Calls : Health_Client(c)
    \/ \E c \in Calls : Health_Ping(c)
    \/ \E c \in Calls : Health_Info(c)
    \/ \E c \in Calls, t \in LockTokens : Acquire_Get(c, t, MaxTTL)
    \/ \E c \in Calls : Acquire_Expire(c)
    \/ \E c \in Calls : Acquire_Set(c)
    \/ \E c \in Calls : Acquire_SetNx(c)
    \/ \E c \in Calls : Acquire_ReGet(c)
    \/ \E c \in Calls, t \in LockTokens : Release_Get(c, t)
    \/ \E c \in Calls : Release_Delete(c)
    \/ \E c \in Calls : Register_SetSession(c)
    \/ \E c \in Calls : Register_SetHeartbeat(c)
    \/ \E c \in Calls : Heartbeat_Set(c)
    \/ \E c \in Calls : Heartbeat_Get(c)
    \/ \E c \in Calls : Heartbeat_SetSession(c)

SpecHealth == Init /\ [][NextHealth]_vars

\* Register, heartbeat and session_status with the clock moving while calls
\* are under way; the server is started with a heartbeat TTL and an active
\* threshold of one second each.
ShortEnviron == [HEARTBEAT_TTL |-> 1, ACTIVE_THRESHOLD |-> 1]

InitLatency ==
    \E ts \in Deployments :
        InitEnv(ts, from_env(ShortEnviron), [s \in Sessions |-> GitFails])

NextLatency ==
    \/ \E c \in Calls : Register_SetSession(c)
    \/ \E c \in Calls : Register_SetHeartbeat(c)
    \/ \E c \in Calls : Heartbeat_Set(c)
    \/ \E c \in Calls : Heartbeat_Get(c)
    \/ \E c \in Calls : Heartbeat_SetSession(c)
    \/ \E c \in Calls : Status_Keys(c)
    \/ \E c \in Calls : Status_GetSession(c)
    \/ \E c \in Calls : Status_GetHeartbeat(c)
    \/ Tick

SpecLatency == InitLatency /\ [][NextLatency]_vars

\* Lock traffic under names that look like session keys, next to register and
\* heartbeat; the clock stands still.
IsolationTokens == {<<"pytest">>, <<"claude", "sessions", "A">>}
IsolationKeys == {LockKey(t) : t \in IsolationTokens}
IsolationPatterns == {<<"*">>, <<"claude", "sessions", "*">>}

InitIsolation ==
    \E ts \in Deployments :
        InitKeys(ts, DefaultConfig, [s \in Sessions |-> GitFails], IsolationKeys)

NextIsolation ==
    \/ \E c \in Calls, t \in IsolationTokens : Acquire_Get(c, t, MaxTTL)
    \/ \E c \in Calls : Acquire_Expire(c)
    \/ \E c \in Calls : Acquire_Set(c)
    \/ \E c \in Calls : Acquire_SetNx(c)
    \/ \E c \in Calls : Acquire_ReGet(c)
    \/ \E c \in Calls, t \in IsolationTokens : Release_Get(c, t)
    \/ \E c \in Calls : Release_Delete(c)
    \/ \E c \in Calls, t \in IsolationTokens : Check(c, t)
    \/ \E c \in Calls, pattern \in IsolationPatterns : List_Keys(c, pattern)
    \/ \E c \in Calls : List_Get(c)
    \/ \E c \in Calls : Register_SetSession(c)
    \/ \E c \in Calls : Register_SetHeartbeat(c)
    \/ \E c \in Calls : Heartbeat_Set(c)
    \/ \E c \in Calls : Heartbeat_Get(c)
    \/ \E c \in Calls : Heartbeat_SetSession(c)

SpecIsolation == InitIsolation /\ [][NextIsolation]_vars

\* The token "work" in worktrees that are on no branch, or on main; the
\* clock stands still.
WorkToken == <<"work">>
WorkOutputs == {GitFails, GitSays(""), GitSays("main")}
WorkKeys == {LockKey(<<"unknown">>), LockKey(<<"branch", "main">>)}

InitWork ==
    \E ts \in Deployments :
        InitKeys(ts, DefaultConfig, [s \in Sessions |-> GitFails], WorkKeys)

NextWork ==
    \/ \E s \in Sessions, out \in WorkOutputs : Checkout(s, out)
    \/ \E c \in Calls : Acquire_Get(c, WorkToken, MaxTTL)
    \/ \E c \in Calls : Acquire_Expire(c)
    \/ \E c \in Calls : Acquire_Set(c)
    \/ \E c \in Calls : Acquire_SetNx(c)
    \/ \E c \in Calls : Acquire_ReGet(c)
    \/ \E c \in Calls : Release_Get(c, WorkToken)
    \/ \E c \in Calls : Release_Delete(c)
    \/ \E c \in Calls : Check(c, WorkToken)

SpecWork == InitWork /\ [][NextWork]_vars

\* One resource under its short and its full name, and an issue lock; the
\* clock stands still.
AliasTokens == {<<"pytest">>, <<"resource", "pytest">>, <<"issue", "42">>}
AliasKeys == {LockKey(t) : t \in AliasTokens}

InitAlias ==
    \E ts \in Deployments :
        InitKeys(ts, DefaultConfig, [s \in Sessions |-> GitFails], AliasKeys)

NextAlias ==
    \/ \E c \in Calls, t \in AliasTokens : Acquire_Get(c, t, MaxTTL)
    \/ \E c \in Calls : Acquire_Expire(c)
    \/ \E c \in Calls : Acquire_Set(c)
    \/ \E c \in Calls : Acquire_SetNx(c)
    \/ \E c \in Calls : Acquire_ReGet(c)
    \/ \E c \in Calls, t \in AliasTokens : Release_Get(c, t)
    \/ \E c \in Calls : Release_Delete(c)
    \/ \E c \in Calls, t \in AliasTokens : Check(c, t)

SpecAlias == InitAlias /\ [][NextAlias]_vars

\* Name resolution alone, over every branch name of Chars.
ResolveTokens == {WorkToken, <<"pytest">>, <<"issue", "42">>}

InitParse ==
    \E ts \in Deployments, br \in [Sessions -> BranchOutputs] :
        InitEnv(ts, DefaultConfig, br)

NextParse ==
    \/ \E s \in Sessions, out \in BranchOutputs : Checkout(s, out)
    \/ \E c \in Calls, t \in ResolveTokens : Resolve(c, t)

SpecParse == InitParse /\ [][NextParse]_vars

\* Listing: an issue lock and a lock whose name is the key of the issue lock.
ListTokens == {<<"issue", "42">>, <<"claude", "locks", "issue", "42">>}
ListKeys == {LockKey(t) : t \in ListTokens}
Patterns == {<<"*">>, <<"issue", "*">>}

InitList ==
    \E ts \in Deployments :
        InitKeys(ts, DefaultConfig, [s \in Sessions |-> GitFails], ListKeys)

NextList ==
    \/ \E c \in Calls, t \in ListTokens : Acquire_Get(c, t, MaxTTL)
    \/ \E c \in Calls : Acquire_Expire(c)
    \/ \E c \in Calls : Acquire_Set(c)
    \/ \E c \in Calls : Acquire_SetNx(c)
    \/ \E c \in Calls : Acquire_ReGet(c)
    \/ \E c \in Calls, pattern \in Patterns : List_Keys(c, pattern)
    \/ \E c \in Calls : List_Get(c)
    \/ \E c \in Calls : List_Raises(c)
    \/ Tick

SpecList == InitList /\ [][NextList]_vars

\* Name resolution of names that are already in their full form, and of the
\* keys they give, passed in as names.
CanonTokens ==
    {<<"issue", "42">>, <<"wave", "5c">>, <<"wave", "5c.1">>, <<"branch", "main">>}
FedBackTokens == {<<"claude", "locks">> \o t : t \in CanonTokens}

NextCanon ==
    \/ \E s \in Sessions, out \in WorkOutputs : Checkout(s, out)
    \/ \E c \in Calls, t \in CanonTokens \cup FedBackTokens : Resolve(c, t)

SpecCanon == Init /\ [][NextCanon]_vars

\* Acquire with timeouts of -1, 0 and 1 second.
Timeouts == {-1, 0, 1}

NextTimeout ==
    \/ \E c \in Calls, t \in LockTokens, ttl \in Timeouts : Acquire_Get(c, t, ttl)
    \/ \E c \in Calls : Acquire_Expire(c)
    \/ \E c \in Calls : Acquire_Set(c)
    \/ \E c \in Calls : Acquire_SetNx(c)
    \/ \E c \in Calls : Acquire_ReGet(c)
    \/ \E c \in Calls, t \in LockTokens : Check(c, t)
    \/ Tick

SpecTimeout == Init /\ [][NextTimeout]_vars

\* Three tasks race for one key: acquire with one timeout, and the clock.
InitRace == InitWith(Calls)

NextRace ==
    \/ \E c \in Calls, t \in LockTokens : Acquire_Get(c, t, MaxTTL)
    \/ \E c \in Calls : Acquire_Expire(c)
    \/ \E c \in Calls : Acquire_Set(c)
    \/ \E c \in Calls : Acquire_SetNx(c)
    \/ \E c \in Calls : Acquire_ReGet(c)
    \/ Tick

SpecRace == InitRace /\ [][NextRace]_vars

(* ============================== claims ================================ *)
Holders(k) == {s \in Sessions : lease[k][s].until > now}

\* C1. Mutual exclusion: on no key do two distinct sessions both hold a lease
\* that acquire granted them and that has neither been released nor run out.
C1_MutualExclusion == \A k \in LockKeys : Cardinality(Holders(k)) <= 1

\* C2. No direct hand-off: no step changes the record stored at a lock key
\* from one naming session s to one naming a different session.
C2_NoDirectHandoff ==
    [][\A k \in LockKeys :
          (locks[k] # Absent /\ locks'[k] # Absent)
              => locks'[k].val.session_id = locks[k].val.session_id]_vars

\* C3. Owner-guarded release: the delete of release by session s never
\* removes a record that names another session at the moment of the delete,
\* and a release that returns not_owner leaves the backend unchanged.
C3_OwnerGuardedRelease ==
    [][/\ \A c \in Calls :
            (pc[c] = "rel_del" /\ pc'[c] = "idle")
                => LET key == LockKey(loc[c].lock_name)
                   IN  locks[key] = Absent
                       \/ locks[key].val.session_id = SessOf(c)
       /\ (last'.op = "release" /\ last'.reason = "not_owner")
            => backend' = backend]_vars

\* the sessions seen racing for the free key k: those of the acquires that
\* found k free and have run since without any release or expiry of k, and
\* the session whose set-if-absent won k
Contenders(k) ==
    {SessOf(c) : c \in cleanCalls[k]} \cup cleanWinners[k]
    \cup {s \in Sessions : /\ last.op = "acquire" /\ last.clean
                            /\ LockKey(last.lock_name) = k /\ last.session = s}

\* C4. When two or more distinct sessions race for a free key and no release
\* or expiry happens meanwhile, exactly one of them succeeds, the stored
\* record names that winner, and every loser is told lock_held or
\* race_condition with the winner as holder.
C4_RaceOneWinner ==
    \A k \in LockKeys :
        Cardinality(Contenders(k)) >= 2 =>
            /\ Cardinality(cleanWinners[k]) <= 1
            /\ cleanWinners[k] # {} =>
                  /\ locks[k] # Absent
                  /\ locks[k].val.session_id \in cleanWinners[k]
            /\ (last.op = "acquire" /\ last.clean /\ ~last.success
                  /\ LockKey(last.lock_name) = k) =>
                  /\ last.reason \in {"lock_held", "race_condition"}
                  /\ last.held_by \in cleanWinners[k]

\* C5. Idempotent re-acquire: the owner's extend returns success with
\* extended=true; the record it leaves keeps the session_id, acquired_at and
\* worktree of the record it read; expires_at is the clock the call read plus
\* the new timeout, and the key's TTL is exactly the new timeout.
C5_IdempotentReacquire ==
    [][\A c \in Calls :
          /\ (pc[c] = "acq_expire" /\ pc'[c] = "acq_set")
                => loc'[c].expires_at = now + loc[c].timeout
          /\ (pc[c] = "acq_set" /\ pc'[c] = "idle")
                => LET key == LockKey(loc[c].lock_name)
                       old == loc[c].data
                   IN  /\ last'.op = "acquire" /\ last'.call = c
                       /\ last'.success /\ last'.extended
                       /\ last'.expires_at = loc[c].expires_at
                       /\ locks'[key] # Absent
                       /\ locks'[key].val.session_id = SessOf(c)
                       /\ locks'[key].val.session_id = old.session_id
                       /\ locks'[key].val.acquired_at = old.acquired_at
                       /\ locks'[key].val.worktree = old.worktree
                       /\ locks'[key].val.expires_at = loc[c].expires_at
                       /\ locks'[key].exp = now + loc[c].timeout]_vars

\* reached: an extend with the shorter timeout, after the clock has moved on
\* from the first acquisition, has kept acquired_at
C5_Witness ==
    \E k \in LockKeys :
        /\ last.op = "acquire" /\ last.success /\ last.extended
        /\ LockKey(last.lock_name) = k
        /\ locks[k] # Absent
        /\ locks[k].val.acquired_at < now
        /\ locks[k].exp = now + 1
        /\ locks[k].val.expires_at = now + 1

\* C6. Every lock key in the backend carries a TTL, and each write of acquire
\* (set-if-absent and the owner's extend) sets it to the requested timeout.
C6_LockKeysHaveTTL ==
    /\ [](\A k \in LockKeys : locks[k] # Absent =>
              /\ locks[k].exp # NoTTL
              /\ locks[k].exp > now)
    /\ [][\A c \in Calls :
            (pc[c] \in {"acq_set", "acq_setnx"} /\ pc'[c] = "idle")
                => LET key == LockKey(loc[c].lock_name)
                   IN  /\ locks'[key] # Absent
                       /\ locks'[key].exp = now + loc[c].timeout]_vars

\* reached: a key written by set-if-absent and one rewritten by an extend
C6_Witness ==
    \E k \in LockKeys :
        /\ locks[k] # Absent /\ locks[k].exp = now + MaxTTL
        /\ last.op = "acquire" /\ last.success /\ last.extended

\* C7. While a lease that acquire granted to session s runs (no release or
\* unregister by s, TTL not elapsed), every check by s reports the lock as
\* taken, is_mine, held by s, with the acquired_at of the first acquisition.
C7_CheckAfterAcquire ==
    \A k \in LockKeys :
        (/\ last.op = "check" /\ LockKey(last.lock_name) = k
         /\ lease[k][last.session].until > now)
            => /\ ~last.available
               /\ last.is_mine
               /\ last.held_by = last.session
               /\ last.acquired_at = lease[k][last.session].since

\* C8. After a release that returned success, and until the next acquire of
\* the key completes, every check finds the key available.
C8_CheckAfterRelease ==
    \A k \in LockKeys :
        (last.op = "check" /\ LockKey(last.lock_name) = k /\ relBy[k] # {})
            => last.available

\* reached: a check that answers available after a release, while an acquire
\* of the releasing session that had read the record is still in flight
C8_Witness ==
    \E k \in LockKeys, c \in Calls :
        /\ last.op = "check" /\ LockKey(last.lock_name) = k /\ last.available
        /\ SessOf(c) \in relBy[k]
        /\ pc[c] \in {"acq_expire", "acq_set"}
        /\ LockKey(loc[c].lock_name) = k

\* a release by call c on key k starts in this step
ReleaseStarts(c, k) ==
    /\ pc[c] = "idle"
    /\ \/ pc'[c] = "rel_del" /\ LockKey(loc'[c].lock_name) = k
       \/ /\ last'.op = "release" /\ last'.call = c
          /\ LockKey(last'.lock_name) = k

C10_CascadeRelease ==
    (last.op = "unregister" /\ last.success)
        => \A k \in last.owned0 :
              locks[k] = Absent \/ locks[k].val.session_id # last.session

\* the place of a key in the order I5 demands: lock keys, session key,
\* heartbeat key
Rank(k) == IF k \in SessionKeys THEN 1 ELSE IF k \in HeartbeatKeys THEN 2 ELSE 0

InOrder(q) == \A i, j \in DOMAIN q : i < j => Rank(q[i]) <= Rank(q[j])

\* C11. Ordering in unregister: the keys one unregister call deletes come in
\* the order lock keys, session key, heartbeat key; while a call is still
\* scanning or deleting locks it has deleted no session or heartbeat key, and
\* once it has deleted the session key nothing is left on its list of locks.
C11_UnregisterOrder ==
    /\ \A c \in Calls :
          /\ InOrder(loc[c].deleted)
          /\ pc[c] \in {"unreg_get", "unreg_del", "unreg_delsess"}
                => \A i \in DOMAIN loc[c].deleted : Rank(loc[c].deleted[i]) = 0
          /\ pc[c] \in {"unreg_delsess", "unreg_delhb"} => loc[c].all_locks = <<>>
          /\ pc[c] = "unreg_delhb"
                => /\ loc[c].deleted # <<>>
                   /\ loc[c].deleted[Len(loc[c].deleted)] = SessionKey(SessOf(c))
    /\ (last.op = "unregister" /\ last.success)
          => /\ InOrder(last.deleted)
             /\ Len(last.deleted) >= 2
             /\ last.deleted[Len(last.deleted) - 1] = SessionKey(last.session)
             /\ last.deleted[Len(last.deleted)] = HeartbeatKey(last.session)

\* reached: an unregister of a registered session that deleted two locks,
\* then its session key, then its heartbeat key
C11_Witness ==
    /\ last.op = "unregister" /\ last.success
    /\ Len(last.deleted) = 4
    /\ Len(last.released_locks) = 2

\* C12. A backend failure while unregister is still releasing locks ends the
\* call with an error and no success; the failing step changes nothing in
\* the backend (the locks already deleted are not restored) and the call has
\* touched neither the session key nor the heartbeat key.
C12_UnregisterFailsPartway ==
    [][\A c \in Calls :
          (/\ pc[c] \in {"unreg_get", "unreg_del"} /\ pc'[c] = "idle"
           /\ last'.call = c /\ last'.op = "unregister")
              => /\ last'.raised
                 /\ ~last'.success
                 /\ backend' = backend
                 /\ last'.deleted = loc[c].deleted
                 /\ \A i \in DOMAIN last'.deleted : Rank(last'.deleted[i]) = 0]_vars

\* reached: unregister failed after deleting one of the caller's two locks;
\* the other lock, the session key and the heartbeat key are still there
C12_Witness ==
    /\ last.op = "unregister" /\ last.raised
    /\ Len(last.deleted) = 1
    /\ last.deleted[1] \in LockKeys
    /\ locks[last.deleted[1]] = Absent
    /\ \E k \in LockKeys : locks[k] # Absent /\ locks[k].val.session_id = last.session
    /\ sessions[SessionKey(last.session)] # Absent
    /\ heartbeats[HeartbeatKey(last.session)] # Absent

\* the entries of a session_status result that are about session s
EntriesOf(s) == {i \in DOMAIN last.sessions : last.sessions[i].session_id = s}

StrictlyIncreasing(cfg) ==
    /\ cfg.ACTIVE_THRESHOLD < cfg.IDLE_THRESHOLD
    /\ cfg.IDLE_THRESHOLD < cfg.STALE_THRESHOLD
    /\ cfg.STALE_THRESHOLD < cfg.ABANDONED_THRESHOLD

\* C14. With strictly increasing thresholds, every entry of session_status
\* carries the tier of the table: active iff age < T_active, idle iff
\* T_active <= age < T_idle, stale iff T_idle <= age < T_stale, abandoned iff
\* T_stale <= age < T_abandoned, no_heartbeat iff no heartbeat was found.
C14_TierTable ==
    (last.op = "status" /\ StrictlyIncreasing(config)) =>
        \A i \in DOMAIN last.sessions :
            LET e == last.sessions[i]
                age == e.heartbeat_age_seconds
            IN  /\ e.status \in {"active", "idle", "stale", "abandoned", "no_heartbeat"}
                /\ (e.status = "no_heartbeat") <=> ~e.has_heartbeat
                /\ e.has_heartbeat =>
                      /\ (e.status = "active") <=> (age < config.ACTIVE_THRESHOLD)
                      /\ (e.status = "idle") <=>
                            (config.ACTIVE_THRESHOLD <= age /\ age < config.IDLE_THRESHOLD)
                      /\ (e.status = "stale") <=>
                            (config.IDLE_THRESHOLD <= age /\ age < config.STALE_THRESHOLD)
                      /\ (e.status = "abandoned") <=>
                            (config.STALE_THRESHOLD <= age
                             /\ age < config.ABANDONED_THRESHOLD)

\* C15. Default configuration; s registered, then heartbeat, then made no
\* further register, heartbeat or unregister call: a session_status taken
\* 600 s after that heartbeat lists s as idle, one taken 7200 s after it as
\* stale, one taken 18000 s after it as abandoned.
C15_TiersOverTime ==
    (last.op = "status" /\ config = DefaultConfig) =>
        \A s \in last.seen :
            presence[s].beat_at # -1 =>
                LET quiet == last.asked_at - presence[s].beat_at
                    Listed(tier) ==
                        /\ EntriesOf(s) # {}
                        /\ \A i \in EntriesOf(s) : last.sessions[i].status = tier
                IN  /\ quiet = 600 => Listed("idle")
                    /\ quiet = 7200 => Listed("stale")
                    /\ quiet = 18000 => Listed("abandoned")

\* C16. session_status never classifies a session under thresholds that are
\* not strictly increasing (such a configuration is rejected at startup).
C16_ThresholdsOrdered ==
    (last.op = "status" /\ last.sessions # <<>>) => StrictlyIncreasing(config)

\* call c takes a request for `op` in this step (it goes to its first await
\* or returns at once) and the request satisfies Asked(token, timeout)
Begins(c, op, Asked(_, _)) ==
    /\ pc[c] = "idle"
    /\ \/ /\ pc'[c] # "idle"
          /\ pc'[c] \in (IF op = "acquire" THEN {"acq_expire", "acq_setnx"}
                         ELSE IF op = "release" THEN {"rel_del"} ELSE {})
          /\ Asked(loc'[c].token, loc'[c].timeout)
       \/ /\ pc'[c] = "idle"
          /\ last'.call = c /\ last'.op = op
          /\ Asked(last'.token, last'.timeout)

\* git gives no branch name in the worktree of session s
BranchUnknown(s) ==
    branch[s].returncode # 0 \/ \A i \in DOMAIN branch[s].stdout :
                                    branch[s].stdout[i] \in Whitespace

\* C17. With the token "work" and no current branch, acquire, release and
\* check each return at once with reason invalid_argument and leave the
\* locks alone; the key claude:locks:resource:unknown is never present.
C17_UnknownContextRejected ==
    /\ [](locks[LockKey(<<"unknown">>)] = Absent)
    /\ [][\A c \in Calls, op \in {"acquire", "release", "check"} :
            (Begins(c, op, LAMBDA t, ttl : t = WorkToken)
             /\ BranchUnknown(SessOf(c)))
                => /\ pc'[c] = "idle"
                   /\ ~last'.success
                   /\ last'.reason = "invalid_argument"
                   /\ locks' = locks]_vars

\* C18. acquire with a timeout of 0 or less returns at once with reason
\* invalid_argument and leaves the backend unchanged.
C18_NonPositiveTimeoutRejected ==
    [][\A c \in Calls :
          Begins(c, "acquire", LAMBDA t, ttl : ttl <= 0)
              => /\ pc'[c] = "idle"
                 /\ ~last'.success
                 /\ last'.reason = "invalid_argument"
                 /\ backend' = backend]_vars

\* the key the token t (not "work") stands for: <root>:locks:<t> when t has
\* a ':', <root>:locks:resource:<t> otherwise
KeyOfToken(t) ==
    IF Len(t) >= 2 THEN <<"claude", "locks">> \o t
                   ELSE <<"claude", "locks", "resource">> \o t

\* the token of the request call c works on in this step, <<>> when c takes
\* no part in the step
TokenInStep(c) ==
    IF pc[c] # "idle" /\ pc'[c] # pc[c] THEN loc[c].token
    ELSE IF pc[c] = "idle" /\ pc'[c] # "idle" THEN loc'[c].token
    ELSE IF pc[c] = "idle" /\ last' # last /\ last'.call = c THEN last'.token
    ELSE <<>>

LeadingDigits(cs) ==
    SubSeq(cs, 1, CHOOSE n \in 0..Len(cs) :
                      /\ \A i \in 1..n : cs[i] \in Digit
                      /\ n = Len(cs) \/ cs[n + 1] \notin Digit)

\* cs without its first n characters
Drop(cs, n) == SubSeq(cs, n + 1, Len(cs))

\* the number the digits ds write, written without leading zeros
Canonical(ds) ==
    LET nz == {i \in DOMAIN ds : ds[i] # "0"}
    IN  IF nz = {} THEN <<"0">>
        ELSE SubSeq(ds, CHOOSE i \in nz : \A j \in nz : i <= j, Len(ds))

\* the five rules, first match winning, on the characters of a branch name:
\* the kind and the characters of what follows the kind's ':'
RuleScope(cs) ==
    LET isIssue == Len(cs) >= 6 /\ SubSeq(cs, 1, 6) = <<"i", "s", "s", "u", "e", "-">>
        isWave == Len(cs) >= 5 /\ SubSeq(cs, 1, 5) = <<"w", "a", "v", "e", "-">>
        N == LeadingDigits(Drop(cs, 6))
        afterWave == Drop(cs, 5)
        D == LeadingDigits(afterWave)
        afterD == Drop(afterWave, Len(D))
        X == IF afterD # <<>> /\ afterD[1] \in LowerCase
                 THEN Append(D, afterD[1]) ELSE D
        rest == Drop(afterWave, Len(X))
        M == IF rest # <<>> /\ rest[1] \in {".", "-"}
                 THEN LeadingDigits(Tail(rest)) ELSE <<>>
    IN  IF cs = <<>> THEN <<"unknown", <<>>>>
        ELSE IF isIssue /\ N # <<>> THEN <<"issue", Canonical(N)>>
        ELSE IF isWave /\ D # <<>> /\ M # <<>>
            THEN <<"wave", X \o <<".">> \o Canonical(M)>>
        ELSE IF isWave /\ D # <<>> THEN <<"wave", X>>
        ELSE <<"branch", cs>>

\* the lock name `resolved` is of the kind and has the characters of `scope`
NamesScope(resolved, scope) ==
    IF scope[1] = "unknown" THEN resolved = <<"unknown">>
    ELSE /\ Len(resolved) = 2
         /\ resolved[1] = scope[1]
         /\ Chars[resolved[2]] = scope[2]

\* C20. With the token "work" the name and the key are those the five rules
\* give for the branch the worktree is on at the time of the call: issue-N
\* gives issue:N, wave-X.N and wave-X-N give wave:X.N, wave-X gives wave:X,
\* any other name gives branch:<name>, no branch gives unknown; the match is
\* at the start of the name only.
C20_BranchParsing ==
    (last.op = "resolve" /\ last.token = WorkToken) =>
        LET out == branch[last.session]
            said(name) == out = GitSays(name)
            key(kind, scope) == last.key = <<"claude", "locks", kind, scope>>
        IN  /\ out = GitFails => last.lock_name = <<"unknown">>
            /\ \A name \in BranchNames :
                   said(name) =>
                      /\ NamesScope(last.lock_name, RuleScope(Chars[name]))
                      /\ name # "" =>
                             last.key = <<"claude", "locks">> \o last.lock_name
            /\ said("wave-5c.1-login") => key("wave", "5c.1")
            /\ said("wave-5c-1-login") => key("wave", "5c.1")
            /\ said("issue-42-bug") => key("issue", "42")
            /\ said("wave-3-cleanup") => key("wave", "3")
            /\ said("main") => key("branch", "main")
            /\ said("my-issue-42") => key("branch", "my-issue-42")

\* C20 (witness). Session A's worktree is on issue-42-bug and its request
\* for "work" resolved to claude:locks:issue:42, while session B's is on
\* wave-5c.1-login.
C20_Witness ==
    /\ last.op = "resolve" /\ last.token = WorkToken /\ last.session = "A"
    /\ branch["A"] = GitSays("issue-42-bug")
    /\ branch["B"] = GitSays("wave-5c.1-login")
    /\ last.key = <<"claude", "locks", "issue", "42">>

\* C21. Resolving is idempotent on names in full form: when the key a
\* request got for issue:N, wave:X, wave:X.N or branch:<name> is itself
\* resolved by the next request, the result is that same key.
C21_ResolveIdempotent ==
    [][(/\ last.op = "resolve" /\ last.token \in CanonTokens
        /\ last'.op = "resolve" /\ last'.token = last.key)
           => last'.key = last.key]_vars

\* the reasons an unsuccessful outcome may carry
Reasons ==
    {"lock_held", "race_condition", "not_owner", "not_found",
     "invalid_argument", "backend_unavailable"}

\* C22. Every result of acquire or release that reports no success carries
\* a reason out of Reasons.
C22_ReasonsClosed ==
    (last.op \in {"acquire", "release"} /\ ~last.success /\ ~last.raised)
        => last.reason \in Reasons

\* the key k without the <root>:locks: it begins with
WithoutPrefix(k) == SubSeq(k, 3, Len(k))

\* the key k is <root>:locks:<pattern>, a final '*' standing for any rest
MatchesPattern(k, pattern) ==
    /\ Len(k) >= 2 /\ SubSeq(k, 1, 2) = <<"claude", "locks">>
    /\ LET name == WithoutPrefix(k)
           n == Len(pattern)
       IN  IF pattern[n] = "*"
               THEN Len(name) >= n /\ \A i \in 1..(n - 1) : name[i] = pattern[i]
               ELSE name = pattern

\* C23. list_locks(pattern) scans the present keys matching
\* <root>:locks:<pattern> and reads them one by one: a key still present at
\* its read gives one entry, whose name is the key without the prefix and
\* whose is_mine says whether held_by is the caller; a key gone by then gives
\* none; count is the number of entries; no matching key gives count 0 and
\* an empty list.
C23_ListLocks ==
    [][\A c \in Calls :
          /\ (pc[c] = "idle" /\ pc'[c] = "list_get") =>
                LET scanned == loc'[c].all_locks
                IN  /\ {scanned[i] : i \in DOMAIN scanned} =
                          {k \in DOMAIN locks : locks[k] # Absent
                               /\ MatchesPattern(k, loc'[c].pattern)}
                    /\ \A i, j \in DOMAIN scanned : i # j => scanned[i] # scanned[j]
                    /\ loc'[c].entries = <<>>
          /\ (/\ pc[c] = "idle" /\ pc'[c] = "idle" /\ last' # last
              /\ last'.call = c /\ last'.op = "list" /\ ~last'.raised) =>
                /\ \A k \in DOMAIN locks :
                       locks[k] # Absent => ~MatchesPattern(k, last'.pattern)
                /\ last'.count = 0 /\ last'.locks = <<>>
          /\ (pc[c] = "list_get" /\ ~(pc'[c] = "idle" /\ last'.raised)
              /\ pc'[c] \in {"idle", "list_get"}
              /\ (pc'[c] = "list_get" => loc'[c] # loc[c])) =>
                LET k == Head(loc[c].all_locks)
                    entry == [name |-> WithoutPrefix(k),
                              held_by |-> locks[k].val.session_id,
                              is_mine |-> locks[k].val.session_id = SessOf(c),
                              worktree |-> locks[k].val.worktree,
                              acquired_at |-> locks[k].val.acquired_at,
                              expires_at |-> locks[k].val.expires_at]
                    expected == IF locks[k] # Absent
                                    THEN Append(loc[c].entries, entry)
                                    ELSE loc[c].entries
                IN  IF pc'[c] = "list_get"
                        THEN loc'[c].entries = expected
                        ELSE /\ last'.op = "list"
                             /\ last'.locks = expected
                             /\ last'.count = Len(expected)]_vars

\* C24. A failed read of one entry does not fail list_locks: no listing ends
\* with the error of an entry's read.
C24_ListToleratesReadFailure ==
    ~(last.op = "list" /\ last.raised /\ last.key # <<>>)

\* no request of session s is in flight when the calls stand at p
Quiet(p, s) == \A c \in tasks : SessOf(c) = s => p[c] = "idle"

\* C25. While the owner of a lock makes no call, the key keeps the owner's
\* record as long as the lease acquire granted is running, whatever the
\* other sessions do; when that lease runs out the key is free; and every
\* lock is free again at some time (or the clock has reached MaxTime).
C25_LeaseLiveness ==
    /\ [][\A k \in DOMAIN locks, s \in Sessions :
            (/\ locks[k] # Absent /\ locks[k].val.session_id = s
             /\ Quiet(pc, s) /\ Quiet(pc', s)
             /\ lease[k][s].until > now')
                => (locks'[k] # Absent /\ locks'[k].val.session_id = s)]_vars
    /\ [][\A k \in DOMAIN locks, s \in Sessions :
            (/\ Quiet(pc, s) /\ Quiet(pc', s)
             /\ lease[k][s].until > now /\ lease[k][s].until <= now')
                => (locks'[k] = Absent \/ locks'[k].val.session_id # s)]_vars
    /\ \A k \in LockKeys :
            [](locks[k] # Absent => <>(locks[k] = Absent \/ now = MaxTime))

\* C26. Every stored session record has status active, and session_status
\* writes nothing: the tier it reports is computed for the answer only.
C26_StoredStatusActive ==
    /\ [](\A k \in SessionKeys :
              sessions[k] # Absent => sessions[k].val.status = "active")
    /\ [][\A c \in Calls :
            (\/ /\ pc'[c] \in {"st_get", "st_gethb"}
                /\ pc'[c] # pc[c] \/ loc'[c] # loc[c]
             \/ /\ last'.op = "status" /\ last'.call = c /\ last' # last)
                => backend' = backend]_vars

\* C26 (witness). session_status has just reported a session under a tier
\* other than active while the stored record of that session says active.
C26_Witness ==
    /\ last.op = "status"
    /\ \E i \in DOMAIN last.sessions :
          /\ last.sessions[i].status \in {"idle", "stale", "abandoned", "no_heartbeat"}
          /\ sessions[SessionKey(last.sessions[i].session_id)] # Absent
          /\ sessions[SessionKey(last.sessions[i].session_id)].val.status = "active"

\* C27. A lock key that is absent becomes present only in the set-if-absent
\* step of an acquire on that key.
C27_CreatedBySetIfAbsentOnly ==
    [][\A k \in DOMAIN locks :
          (locks[k] = Absent /\ locks'[k] # Absent)
              => \E c \in Calls :
                    /\ pc[c] = "acq_setnx" /\ pc'[c] = "idle"
                    /\ LockKey(loc[c].lock_name) = k]_vars

\* C28. The delete of unregister by session s never removes a record that
\* names another session at the moment of the delete, and no step of
\* unregister changes a lock that names another session.
C28_UnregisterDeletesOwnOnly ==
    [][\A c \in Calls :
          (pc[c] \in {"unreg_get", "unreg_del", "unreg_delsess", "unreg_delhb"}
           /\ (pc'[c] # pc[c] \/ loc'[c] # loc[c]))
              => \A k \in DOMAIN locks :
                    (locks[k] # Absent /\ locks[k].val.session_id # SessOf(c))
                        => locks'[k] = locks[k]]_vars

\* an unregister call of session s is in flight
Unregistering(s) ==
    \E c \in tasks :
        /\ SessOf(c) = s
        /\ pc[c] \in {"unreg_get", "unreg_del", "unreg_delsess", "unreg_delhb"}

\* C29. Once unregister of session s has returned, and as long as no
\* register of s has written since, the backend holds no session record of
\* s (session_status lists the stored records, so it does not list s).
C29_UnregisteredStaysGone ==
    \A s \in Sessions :
        (presence[s].gone /\ ~Unregistering(s))
            => sessions[SessionKey(s)] = Absent

\* C30. An acquire that finds the key held by another session returns
\* lock_held with that record's session id, worktree, acquired_at and
\* expires_at and changes nothing in the backend; check changes nothing in
\* the backend either.
C30_RefusalWritesNothing ==
    [][\A c \in Calls :
          (pc[c] = "idle" /\ pc'[c] = "idle" /\ last'.call = c) =>
              /\ (last'.op = "acquire" /\ last'.reason = "lock_held") =>
                    LET k == KeyOfToken(last'.token)
                    IN  /\ backend' = backend
                        /\ locks[k] # Absent
                        /\ locks[k].val.session_id # SessOf(c)
                        /\ last'.held_by = locks[k].val.session_id
                        /\ last'.worktree = locks[k].val.worktree
                        /\ last'.acquired_at = locks[k].val.acquired_at
                        /\ last'.expires_at = locks[k].val.expires_at
                        /\ ~last'.success
              /\ last'.op = "check" => backend' = backend]_vars

\* C30 (witness). Session B has just been refused the lock session A holds:
\* the answer names A, and A's record is in the backend with its TTL running.
C30_Witness ==
    /\ last.op = "acquire" /\ last.reason = "lock_held"
    /\ last.session = "B" /\ last.held_by = "A"
    /\ locks[KeyOfToken(last.token)] # Absent
    /\ locks[KeyOfToken(last.token)].val.session_id = "A"
    /\ locks[KeyOfToken(last.token)].exp > now

\* the key call c works on holds the record c read, with its old expires_at,
\* under the TTL c has set for the new timeout
Torn(c) ==
    LET k == LockKey(loc[c].lock_name)
    IN  /\ locks[k] # Absent
        /\ locks[k].val = loc[c].data
        /\ locks[k].exp = loc[c].expires_at
        /\ locks[k].val.expires_at # loc[c].expires_at

\* C31. A re-acquire that fails or is cancelled at one of its awaits never
\* leaves the key with its TTL refreshed to the new timeout while the stored
\* expires_at is still the old one.
C31_NoTornExtend ==
    [][\A c \in Calls :
          (pc[c] \in {"acq_expire", "acq_set"} /\ pc'[c] = "idle" /\ last'.raised)
              => ~Torn(c)]_vars

\* C32. A heartbeat of a session that has no session record writes only its
\* heartbeat key, with the value of its clock reading and TTL HEARTBEAT_TTL,
\* and returns success without writing a session record; session_status lists
\* only sessions whose record it found, so it does not list that session.
C32_HeartbeatWithoutRecord ==
    /\ [][\A c \in Calls :
            (pc[c] = "idle" /\ pc'[c] = "hb_get")
                => /\ sessions' = sessions
                   /\ locks' = locks
                   /\ heartbeats' = [heartbeats EXCEPT ![HeartbeatKey(SessOf(c))] =
                          [present |-> TRUE, val |-> now,
                           exp |-> now + config.HEARTBEAT_TTL]]]_vars
    /\ [][\A c \in Calls :
            (pc[c] = "hb_get" /\ pc'[c] # "hb_get"
               /\ sessions[SessionKey(SessOf(c))] = Absent)
                => /\ pc'[c] = "idle"
                   /\ last'.op = "heartbeat" /\ last'.call = c
                   /\ last'.success /\ last'.session = SessOf(c)
                   /\ last'.timestamp = loc[c].started
                   /\ backend' = backend]_vars
    /\ [][\A c \in Calls :
            (pc[c] = "idle" /\ pc'[c] = "st_get")
                => \A i \in 1..Len(loc'[c].session_keys) :
                      sessions[loc'[c].session_keys[i]] # Absent]_vars
    /\ [][\A c \in Calls :
            (pc[c] = "st_get" /\ pc'[c] # "st_gethb"
               /\ sessions[Head(loc[c].session_keys)] = Absent)
                => IF pc'[c] = "idle" THEN last'.sessions = loc[c].entries
                   ELSE loc'[c].entries = loc[c].entries]_vars

\* a heartbeat has just returned success for a session that has no record:
\* its heartbeat key is there and the record is not
C32_Witness ==
    /\ last.op = "heartbeat" /\ last.success
    /\ sessions[SessionKey(last.session)] = Absent
    /\ heartbeats[HeartbeatKey(last.session)] # Absent
    /\ heartbeats[HeartbeatKey(last.session)].val = last.timestamp

\* C33. A heartbeat that has written its heartbeat key and whose read of the
\* session record fails ends there with success, its session id and its
\* timestamp, and leaves the session record as it was.
C33_HeartbeatSurvivesReadFailure ==
    [][\A c \in Calls :
          (pc[c] = "hb_get" /\ pc'[c] = "idle")
              => /\ last'.op = "heartbeat" /\ last'.call = c
                 /\ last'.success
                 /\ last'.session = SessOf(c)
                 /\ last'.timestamp = loc[c].started
                 /\ sessions' = sessions]_vars

\* the step is one of health_check call c: it begins, moves on, or ends
HealthStep(c) ==
    \/ pc[c] = "idle" /\ pc'[c] = "hc_ping"
    \/ pc[c] \in {"hc_ping", "hc_info"} /\ pc'[c] # pc[c]
    \/ pc[c] = "idle" /\ pc'[c] = "idle"
          /\ last'.call = c /\ last'.op = "health_check"

\* C34. health_check always ends with a result: whatever raises while it
\* connects, pings or fetches the server info comes back as connected = false
\* with the error, and no step of the call changes a lock, session or heartbeat
\* key.
C34_HealthCheckNeverFails ==
    [][\A c \in Calls :
          HealthStep(c)
              => /\ backend' = backend
                 /\ pc'[c] = "idle"
                      => /\ last'.op = "health_check" /\ last'.call = c
                         /\ ~last'.raised
                         /\ last'.session = SessOf(c)
                         /\ last'.error => ~last'.connected
                         /\ ~last'.error => last'.connected]_vars

\* a health_check has just reported the backend unreachable while locks and
\* session records are stored
C34_Witness ==
    /\ last.op = "health_check" /\ last.error /\ ~last.connected
    /\ KvKeys(locks) # {}
    /\ KvKeys(sessions) # {}
    /\ KvKeys(heartbeats) # {}

\* C35. No acquire returns success = false naming the calling session itself
\* as the holder, also when two acquire calls of one session race for a free
\* key.
C35_NeverRefusedByItself ==
    (last.op = "acquire" /\ ~last.success) => last.held_by # last.session

\* C36. Whenever session_status finds a heartbeat key, the age it computes is
\* below HEARTBEAT_TTL; so under a configuration with HEARTBEAT_TTL <=
\* ACTIVE_THRESHOLD every listed session is reported active or no_heartbeat,
\* never idle, stale or abandoned.
C36_OnlyActiveOrNoHeartbeat ==
    last.op = "status" =>
        \A i \in 1..Len(last.sessions) :
            /\ last.sessions[i].has_heartbeat
                  => last.sessions[i].heartbeat_age_seconds < config.HEARTBEAT_TTL
            /\ config.HEARTBEAT_TTL <= config.ACTIVE_THRESHOLD
                  => last.sessions[i].status \in {"active", "no_heartbeat"}

\* the operation a position of a call belongs to
OpOf(label) ==
    IF label \in {"acq_expire", "acq_set", "acq_setnx", "acq_reget"} THEN "acquire"
    ELSE IF label = "rel_del" THEN "release"
    ELSE IF label = "list_get" THEN "list"
    ELSE IF label = "reg_sethb" THEN "register"
    ELSE IF label \in {"hb_get", "hb_setsess"} THEN "heartbeat"
    ELSE "other"

\* the operation of which call c takes a step, "none" when c does not move
Doing(c) ==
    IF pc[c] # "idle" THEN (IF loc'[c] # loc[c] \/ pc'[c] # pc[c]
                              THEN OpOf(pc[c]) ELSE "none")
    ELSE IF pc'[c] # "idle" THEN OpOf(pc'[c])
    ELSE IF last'.call = c THEN last'.op
    ELSE "none"

\* key lies in the lock namespace: the lock prefix and something after it
InLockSpace(key) ==
    /\ Len(key) > Len(LOCK_PREFIX)
    /\ SubSeq(key, 1, Len(LOCK_PREFIX)) = LOCK_PREFIX

\* C37. Namespace isolation: the keys acquire, release, check and list_locks
\* work on start with the lock prefix and are no session or heartbeat key;
\* a step of a lock operation changes no session or heartbeat key; a step of
\* register or heartbeat changes no lock and no session or heartbeat key but
\* the caller's own.
C37_NamespaceIsolation ==
    /\ [](/\ \A k \in DOMAIN locks :
               locks[k] # Absent
                   => InLockSpace(k) /\ k \notin SessionKeys \cup HeartbeatKeys
           /\ \A c \in Calls :
               /\ OpOf(pc[c]) \in {"acquire", "release"}
                     => InLockSpace(LockKey(loc[c].lock_name))
               /\ OpOf(pc[c]) = "list"
                     => \A i \in 1..Len(loc[c].all_locks) :
                           InLockSpace(loc[c].all_locks[i]))
    /\ [][\A c \in Calls :
            Doing(c) \in {"acquire", "release", "check", "list"}
                => /\ sessions' = sessions
                   /\ heartbeats' = heartbeats]_vars
    /\ [][\A c \in Calls :
            Doing(c) \in {"register", "heartbeat"}
                => /\ locks' = locks
                   /\ \A k \in DOMAIN sessions :
                         sessions'[k] # sessions[k] => k = SessionKey(SessOf(c))
                   /\ \A k \in DOMAIN heartbeats :
                         heartbeats'[k] # heartbeats[k]
                             => k = HeartbeatKey(SessOf(c))]_vars

\* a lock named like session A's record key is held while A's session record
\* and heartbeat key are stored
C37_Witness ==
    /\ locks[LockKey(<<"claude", "sessions", "A">>)] # Absent
    /\ sessions[SessionKey("A")] # Absent
    /\ heartbeats[HeartbeatKey("A")] # Absent
    /\ last.op = "list" /\ last.count > 0

====
